---- MODULE Spec2Model ----
(***************************************************************************)
(* A model of unique_code_service.models.UniqueCodePool: the code table,   *)
(* the redemption audit table and the import audit table of each pool, and *)
(* the redeem and import calls that run against them, each on a database   *)
(* connection of its own (api.py opens one connection per request).        *)
(*                                                                         *)
(* A call is cut into steps at its `yield`s on database statements, so the *)
(* steps of concurrent calls interleave the way deferreds do.              *)
(*                                                                         *)
(* The database is the one the code asks for through SQLAlchemy: a         *)
(* statement reads the committed rows; the writes of an open transaction   *)
(* are private to its connection until commit; an UPDATE of a row that     *)
(* another open transaction has updated waits for that transaction; an     *)
(* INSERT of a key that another open transaction has inserted under a      *)
(* unique index waits likewise, and fails with IntegrityError when the key *)
(* is committed.  What COMMIT does after a failed statement depends on the *)
(* backend (MySQL and SQLite keep the earlier writes of the transaction,   *)
(* PostgreSQL discards them): the model allows both.                       *)
(*                                                                         *)
(* Of the timestamps the rows keep the created_at of the audit rows, by   *)
(* which the audit queries order their result; the created_at and         *)
(* modified_at of the other rows are read by no code and are left out.    *)
(***************************************************************************)
EXTENDS Naturals, Sequences, FiniteSets, TLC

VARIABLES
    tables,          \* the pools whose tables exist
    unique_codes,    \* pool -> committed rows of the unique_codes table
    audit,           \* pool -> committed rows of the audit table
    import_audit,    \* pool -> committed rows of the import_audit table
    pc,              \* connection -> where its call stands
    args,            \* connection -> the arguments of its call
    local,           \* connection -> the local variables of its call
    trx,             \* connection -> its open transaction and pending writes
    result,          \* connection -> what its call returned or raised
    calls,           \* number of calls started so far
    first_response,  \* history: <<pool, request id>> -> what the redeem call
                     \* that recorded the request id handed to its caller
    now              \* the reading of the clock, datetime.utcnow()

vars == <<tables, unique_codes, audit, import_audit, pc, args, local, trx,
          result, calls, first_response, now>>

stores == <<tables, unique_codes, audit, import_audit>>

----------------------------------------------------------------------------
(* Bounds and sample inputs *)

MaxCalls == 4

Conns == {"conn1", "conn2"}

Pools == {"testpool"}

ReqIds == {"req-0", "req-1"}

None == "None"

----------------------------------------------------------------------------
(* Outcomes of a call or of a helper *)

NoResult == [kind |-> "none", value |-> <<>>]

NoPrevious == [kind |-> "None", value |-> <<>>]

Returned(v) == [kind |-> "ok", value |-> v]

AuditMismatch == [kind |-> "AuditMismatch", value |-> <<>>]

(* Mutant of NoUniqueCodePool: execute_query lets the error of the        *)
(* storage pass.                                                          *)
NoUniqueCodePool_untranslated(name) ==
    [kind |-> "CollectionMissingError", value |-> name]

NoUniqueCodePool(name) == [kind |-> "NoUniqueCodePool", value |-> name]

CannotRedeemUniqueCode(reason, unique_code) ==
    [kind |-> "CannotRedeemUniqueCode",
     value |-> [reason |-> reason, unique_code |-> unique_code]]

IntegrityError == [kind |-> "IntegrityError", value |-> <<>>]

(* The values import_unique_codes returns: None when the import was made   *)
(* before, and the result of the insert of the rows.                       *)
NoneValue == [type |-> "NoneType"]

ResultProxy == [type |-> "ResultProxy"]

----------------------------------------------------------------------------
(* Strings are sequences of one-character strings. *)

(* Mutant of lower: no character is changed. *)
lower_unchanged(c) == c

lower(c) ==
    CASE c = "A" -> "a"
      [] c = "B" -> "b"
      [] OTHER -> c

UNIQUE_CODE_ALLOWED_CHARS == {"a", "b", "0", "1"}

(* Mutant of canonicalise_unique_code: the characters are selected before *)
(* they are lowercased.                                                   *)
canonicalise_unique_code_select_first(unique_code) ==
    LET selected == SelectSeq(unique_code,
                              LAMBDA c : c \in UNIQUE_CODE_ALLOWED_CHARS)
    IN  [i \in 1..Len(selected) |-> lower(selected[i])]

canonicalise_unique_code(unique_code) ==
    SelectSeq([i \in 1..Len(unique_code) |-> lower(unique_code[i])],
              LAMBDA c : c \in UNIQUE_CODE_ALLOWED_CHARS)

(* json.dumps of a dict and json.loads of the text: the text of a dict is  *)
(* a different value from the dict, and holds the text of each value.      *)
json_dumps(d) == [k \in DOMAIN d |-> <<"json", d[k]>>]

json_loads(text) == [k \in DOMAIN text |-> text[k][2]]

----------------------------------------------------------------------------
(* Rows *)

NoRow == [id |-> 0, unique_code |-> <<>>, flavour |-> None,
          used |-> FALSE, reason |-> None]

NoArgs == [op |-> None]

NoLocal == [candidate_code |-> <<>>, unique_code |-> NoRow, e |-> NoResult]

NoTrx == [open |-> FALSE, failed |-> FALSE, updates |-> {},
          audit |-> <<>>, import_audit |-> <<>>, unique_codes |-> <<>>]

(* _conn.begin(): an open transaction with no pending write. *)
begin == [NoTrx EXCEPT !.open = TRUE]

(* Mutant of unique_code_rows: the used column defaults to true. *)
unique_code_rows_used(unique_code_dicts) ==
    [i \in 1..Len(unique_code_dicts) |->
        [flavour |-> unique_code_dicts[i].flavour,
         unique_code |-> unique_code_dicts[i].unique_code,
         used |-> TRUE,
         reason |-> None]]

(* The rows an INSERT into unique_codes adds for a sequence of dicts: the  *)
(* columns the statement does not name take their defaults.                *)
unique_code_rows(unique_code_dicts) ==
    [i \in 1..Len(unique_code_dicts) |->
        [flavour |-> unique_code_dicts[i].flavour,
         unique_code |-> unique_code_dicts[i].unique_code,
         used |-> FALSE,
         reason |-> None]]

(* Rows as stored: the primary key is the position in the table. *)
WithIds(rows, from) ==
    [i \in 1..Len(rows) |->
        [id |-> from + i,
         unique_code |-> rows[i].unique_code,
         flavour |-> rows[i].flavour,
         used |-> rows[i].used,
         reason |-> rows[i].reason]]

_format_unique_code(unique_code_row) ==
    [id |-> unique_code_row.id,
     unique_code |-> unique_code_row.unique_code,
     flavour |-> unique_code_row.flavour,
     used |-> unique_code_row.used,
     reason |-> unique_code_row.reason]

----------------------------------------------------------------------------
(* Statements *)

(* The committed rows a SELECT ... WHERE unique_code = c LIMIT 1 may give:  *)
(* the statement has no ORDER BY, so any matching row.                     *)
_get_unique_code(pool, canonical_code) ==
    {_format_unique_code(unique_codes[pool][i]) :
        i \in {j \in 1..Len(unique_codes[pool]) :
                   unique_codes[pool][j].unique_code = canonical_code}}

(* The pending write of UPDATE ... WHERE id = unique_code_id. *)
_update_unique_code(unique_code_id, used, reason) ==
    [id |-> unique_code_id, used |-> used, reason |-> reason]

(* Another open transaction on the pool holds the lock of the row. *)
RowLocked(c, pool, id) ==
    \E d \in Conns \ {c} :
        /\ trx[d].open
        /\ args[d].pool = pool
        /\ \E u \in trx[d].updates : u.id = id

(* Mutant of AuditKeyPending: the insert waits for every other open       *)
(* transaction on the pool.                                               *)
AuditKeyPending_any_transaction(c, pool, request_id) ==
    \E d \in Conns \ {c} :
        /\ trx[d].open
        /\ args[d].pool = pool

(* Another open transaction on the pool has inserted the request id. *)
AuditKeyPending(c, pool, request_id) ==
    \E d \in Conns \ {c} :
        /\ trx[d].open
        /\ args[d].pool = pool
        /\ \E i \in 1..Len(trx[d].audit) :
               trx[d].audit[i].request_id = request_id

ImportKeyPending(c, pool, request_id) ==
    \E d \in Conns \ {c} :
        /\ trx[d].open
        /\ args[d].pool = pool
        /\ \E i \in 1..Len(trx[d].import_audit) :
               trx[d].import_audit[i].request_id = request_id

(* Mutant of AuditKeyTaken: request_id has no unique index. *)
AuditKeyTaken_no_index(pool, request_id) == FALSE

(* The unique index on audit.request_id refuses the insert. *)
AuditKeyTaken(pool, request_id) ==
    \E i \in 1..Len(audit[pool]) : audit[pool][i].request_id = request_id

(* Mutant of ImportKeyTaken: request_id has no unique index. *)
ImportKeyTaken_no_index(pool, request_id) == FALSE

(* The unique index on import_audit.request_id refuses the insert. *)
ImportKeyTaken(pool, request_id) ==
    \E i \in 1..Len(import_audit[pool]) :
        import_audit[pool][i].request_id = request_id

(* Mutant of _audit_request: the error flag is left at its default. *)
_audit_request_no_error(audit_params, req_data, resp_data, unique_code, error) ==
    [request_id |-> audit_params.request_id,
     transaction_id |-> audit_params.transaction_id,
     user_id |-> audit_params.user_id,
     request_data |-> json_dumps(req_data),
     response_data |-> json_dumps(resp_data),
     error |-> FALSE,
     created_at |-> now,
     unique_code |-> unique_code]

(* The row _audit_request inserts. *)
_audit_request(audit_params, req_data, resp_data, unique_code, error) ==
    [request_id |-> audit_params.request_id,
     transaction_id |-> audit_params.transaction_id,
     user_id |-> audit_params.user_id,
     request_data |-> json_dumps(req_data),
     response_data |-> json_dumps(resp_data),
     error |-> error,
     created_at |-> now,
     unique_code |-> unique_code]

(* Mutant of _get_previous_request: a stored failure is raised again      *)
(* before the request is compared with the stored one.                    *)
_get_previous_request_error_first(pool, audit_params, req_data) ==
    LET rows == SelectSeq(audit[pool],
                    LAMBDA r : r.request_id = audit_params.request_id)
    IN  IF rows = <<>> THEN NoPrevious
        ELSE
          LET row == rows[1]
              old_audit_params ==
                  [request_id |-> row.request_id,
                   transaction_id |-> row.transaction_id,
                   user_id |-> row.user_id]
              old_req_data == json_loads(row.request_data)
              old_resp_data == json_loads(row.response_data)
          IN  IF row.error
              THEN CannotRedeemUniqueCode(old_resp_data.reason,
                                          old_resp_data.unique_code)
              ELSE IF audit_params # old_audit_params
                          \/ req_data # old_req_data
              THEN AuditMismatch
              ELSE Returned(json_loads(row.response_data))

(* Mutants of _get_previous_request: the stored response is returned as   *)
(* text; the request data is not compared.                                *)
_get_previous_request_raw(pool, audit_params, req_data) ==
    LET rows == SelectSeq(audit[pool],
                    LAMBDA r : r.request_id = audit_params.request_id)
    IN  IF rows = <<>> THEN NoPrevious
        ELSE
          LET row == rows[1]
              old_audit_params ==
                  [request_id |-> row.request_id,
                   transaction_id |-> row.transaction_id,
                   user_id |-> row.user_id]
              old_req_data == json_loads(row.request_data)
              old_resp_data == json_loads(row.response_data)
          IN  IF audit_params # old_audit_params \/ req_data # old_req_data
              THEN AuditMismatch
              ELSE IF row.error
              THEN CannotRedeemUniqueCode(old_resp_data.reason,
                                          old_resp_data.unique_code)
              ELSE Returned(row.response_data)

_get_previous_request_params_only(pool, audit_params, req_data) ==
    LET rows == SelectSeq(audit[pool],
                    LAMBDA r : r.request_id = audit_params.request_id)
    IN  IF rows = <<>> THEN NoPrevious
        ELSE
          LET row == rows[1]
              old_audit_params ==
                  [request_id |-> row.request_id,
                   transaction_id |-> row.transaction_id,
                   user_id |-> row.user_id]
              old_resp_data == json_loads(row.response_data)
          IN  IF audit_params # old_audit_params
              THEN AuditMismatch
              ELSE IF row.error
              THEN CannotRedeemUniqueCode(old_resp_data.reason,
                                          old_resp_data.unique_code)
              ELSE Returned(json_loads(row.response_data))

_get_previous_request(pool, audit_params, req_data) ==
    LET rows == SelectSeq(audit[pool],
                    LAMBDA r : r.request_id = audit_params.request_id)
    IN  IF rows = <<>> THEN NoPrevious
        ELSE
          LET row == rows[1]
              old_audit_params ==
                  [request_id |-> row.request_id,
                   transaction_id |-> row.transaction_id,
                   user_id |-> row.user_id]
              old_req_data == json_loads(row.request_data)
              old_resp_data == json_loads(row.response_data)
          IN  IF audit_params # old_audit_params \/ req_data # old_req_data
              THEN AuditMismatch
              ELSE IF row.error
              THEN CannotRedeemUniqueCode(old_resp_data.reason,
                                          old_resp_data.unique_code)
              ELSE Returned(json_loads(row.response_data))

(* Mutants of already_imported: the check is skipped; the fingerprint is   *)
(* not compared.                                                          *)
already_imported_unchecked(pool, request_id, content_md5) == NoPrevious

already_imported_any_content(pool, request_id, content_md5) ==
    LET rows == SelectSeq(import_audit[pool],
                    LAMBDA r : r.request_id = request_id)
    IN  IF rows = <<>> THEN NoPrevious ELSE Returned(NoneValue)

(* Mutant of already_imported: the import audit row is looked up by the   *)
(* fingerprint as well as by the request id.                              *)
already_imported_by_fingerprint(pool, request_id, content_md5) ==
    LET rows == SelectSeq(import_audit[pool],
                    LAMBDA r : \/ r.request_id = request_id
                               \/ r.content_md5 = content_md5)
    IN  IF rows = <<>> THEN NoPrevious
        ELSE IF rows[1].content_md5 = content_md5
        THEN Returned(NoneValue)
        ELSE AuditMismatch

(* The check at the head of import_unique_codes: has this request id been *)
(* imported, and with this content?                                       *)
already_imported(pool, request_id, content_md5) ==
    LET rows == SelectSeq(import_audit[pool],
                    LAMBDA r : r.request_id = request_id)
    IN  IF rows = <<>> THEN NoPrevious
        ELSE IF rows[1].content_md5 = content_md5
        THEN Returned(NoneValue)
        ELSE AuditMismatch

(* The table after the pending updates of a transaction are applied. *)
ApplyUpdates(rows, updates) ==
    [i \in 1..Len(rows) |->
        IF \E u \in updates : u.id = rows[i].id
        THEN LET u == CHOOSE u \in updates : u.id = rows[i].id
             IN  [rows[i] EXCEPT !.used = u.used, !.reason = u.reason]
        ELSE rows[i]]

(* Mutant of commit: the rows of the transaction replace the rows of the  *)
(* audit table and of the import audit table.                             *)
commit_replacing(c, keep) ==
    LET pool == args[c].pool
        t == trx[c]
    IN  IF keep
        THEN /\ unique_codes' =
                   [unique_codes EXCEPT ![pool] =
                       ApplyUpdates(@, t.updates)
                           \o WithIds(t.unique_codes, Len(@))]
             /\ audit' = [audit EXCEPT ![pool] = t.audit]
             /\ import_audit' =
                   [import_audit EXCEPT ![pool] = t.import_audit]
        ELSE UNCHANGED <<unique_codes, audit, import_audit>>

(* Mutant of commit: the audit rows go to one table that the pools share. *)
commit_shared_audit(c, keep) ==
    LET pool == args[c].pool
        t == trx[c]
    IN  IF keep
        THEN /\ unique_codes' =
                   [unique_codes EXCEPT ![pool] =
                       ApplyUpdates(@, t.updates)
                           \o WithIds(t.unique_codes, Len(@))]
             /\ audit' = [p \in DOMAIN audit |-> audit[p] \o t.audit]
             /\ import_audit' =
                   [import_audit EXCEPT ![pool] = @ \o t.import_audit]
        ELSE UNCHANGED <<unique_codes, audit, import_audit>>

(* trx.commit(): the pending writes of the connection become the committed *)
(* rows of its pool.  With keep = FALSE the backend discards them.         *)
commit(c, keep) ==
    LET pool == args[c].pool
        t == trx[c]
    IN  IF keep
        THEN /\ unique_codes' =
                   [unique_codes EXCEPT ![pool] =
                       ApplyUpdates(@, t.updates)
                           \o WithIds(t.unique_codes, Len(@))]
             /\ audit' = [audit EXCEPT ![pool] = @ \o t.audit]
             /\ import_audit' =
                   [import_audit EXCEPT ![pool] = @ \o t.import_audit]
        ELSE UNCHANGED <<unique_codes, audit, import_audit>>

audit_params_of(a) ==
    [request_id |-> a.request_id,
     transaction_id |-> a.transaction_id,
     user_id |-> a.user_id]

(* Mutant of audit_req_data_of: the code is canonicalised first. *)
audit_req_data_of_canonical(a) ==
    [candidate_code |-> canonicalise_unique_code(a.candidate_code)]

audit_req_data_of(a) == [candidate_code |-> a.candidate_code]

----------------------------------------------------------------------------
(* Inputs *)

unique_code_dict(flavour, unique_code) ==
    [flavour |-> flavour, unique_code |-> unique_code]

Contents ==
    { [content_md5 |-> "md5-0",
       unique_code_dicts |-> <<unique_code_dict("vanilla", <<"a">>)>>],
      [content_md5 |-> "md5-1",
       unique_code_dicts |-> <<unique_code_dict("vanilla", <<"a">>),
                               unique_code_dict("chocolate", <<"b">>)>>] }

ImportInputs ==
    { [op |-> "import", pool |-> p, request_id |-> r,
       content_md5 |-> x.content_md5,
       unique_code_dicts |-> x.unique_code_dicts] :
          p \in Pools, r \in ReqIds, x \in Contents }

RedeemArgs(p, r, t, u, code) ==
    [op |-> "redeem", pool |-> p, request_id |-> r, transaction_id |-> t,
     user_id |-> u, candidate_code |-> code]

(* Redeem calls on request id req-0 that differ from                       *)
(* redeem(<<"a">>, tx-0, user-0) in at most one of transaction id, user id *)
(* and candidate code, and two redeem calls on request id req-1.           *)
RedeemInputs ==
    { RedeemArgs(p, "req-0", x[1], x[2], x[3]) :
          p \in Pools,
          x \in { <<"tx-0", "user-0", <<"a">>>>,
                  <<"tx-1", "user-0", <<"a">>>>,
                  <<"tx-0", "user-1", <<"a">>>>,
                  <<"tx-0", "user-0", <<"A">>>>,
                  <<"tx-0", "user-0", <<"b">>>> } }
    \cup
    { RedeemArgs(p, "req-1", "tx-0", "user-0", code) :
          p \in Pools, code \in { <<"a">>, <<"b">> } }

----------------------------------------------------------------------------
(* The state after the service has started and the pools were created. *)

Init ==
    /\ tables = Pools
    /\ unique_codes = [p \in Pools |-> <<>>]
    /\ audit = [p \in Pools |-> <<>>]
    /\ import_audit = [p \in Pools |-> <<>>]
    /\ pc = [c \in Conns |-> "idle"]
    /\ args = [c \in Conns |-> NoArgs]
    /\ local = [c \in Conns |-> NoLocal]
    /\ trx = [c \in Conns |-> NoTrx]
    /\ result = [c \in Conns |-> NoResult]
    /\ calls = 0
    /\ first_response = [k \in Pools \X ReqIds |-> NoResult]
    /\ now = 0

----------------------------------------------------------------------------
(* redeem_unique_code *)

(* Mutant of RedeemCheck: the raw code is looked up and recorded. *)
RedeemCheck_raw_code(c, a) ==
    /\ pc[c] = "idle"
    /\ calls < MaxCalls
    /\ calls' = calls + 1
    /\ args' = [args EXCEPT ![c] = a]
    /\ IF a.pool \notin tables
       THEN /\ result' = [result EXCEPT ![c] = NoUniqueCodePool(a.pool)]
            /\ pc' = [pc EXCEPT ![c] = "done"]
            /\ UNCHANGED <<local, trx>>
       ELSE LET previous_data ==
                    _get_previous_request(a.pool, audit_params_of(a),
                                          audit_req_data_of(a))
            IN  IF previous_data # NoPrevious
                THEN /\ result' = [result EXCEPT ![c] = previous_data]
                     /\ pc' = [pc EXCEPT ![c] = "done"]
                     /\ UNCHANGED <<local, trx>>
                ELSE /\ local' = [local EXCEPT ![c].candidate_code =
                            a.candidate_code]
                     /\ trx' = [trx EXCEPT ![c] = begin]
                     /\ pc' = [pc EXCEPT ![c] = "redeem_lookup"]
                     /\ UNCHANGED result
    /\ UNCHANGED <<stores, first_response, now>>

(* The call starts: the idempotency check on the audit table, then        *)
(* canonicalisation and the start of the transaction.                     *)
RedeemCheck(c, a) ==
    /\ pc[c] = "idle"
    /\ calls < MaxCalls
    /\ calls' = calls + 1
    /\ args' = [args EXCEPT ![c] = a]
    /\ IF a.pool \notin tables
       THEN /\ result' = [result EXCEPT ![c] = NoUniqueCodePool(a.pool)]
            /\ pc' = [pc EXCEPT ![c] = "done"]
            /\ UNCHANGED <<local, trx>>
       ELSE LET previous_data ==
                    _get_previous_request(a.pool, audit_params_of(a),
                                          audit_req_data_of(a))
            IN  IF previous_data # NoPrevious
                THEN /\ result' = [result EXCEPT ![c] = previous_data]
                     /\ pc' = [pc EXCEPT ![c] = "done"]
                     /\ UNCHANGED <<local, trx>>
                ELSE /\ local' = [local EXCEPT ![c].candidate_code =
                            canonicalise_unique_code(a.candidate_code)]
                     /\ trx' = [trx EXCEPT ![c] = begin]
                     /\ pc' = [pc EXCEPT ![c] = "redeem_lookup"]
                     /\ UNCHANGED result
    /\ UNCHANGED <<stores, first_response, now>>

(* Mutant of _redeem_unique_code: a refusal is written to the used row. *)
_redeem_unique_code_marks_refusal(c) ==
    /\ pc[c] = "redeem_lookup"
    /\ LET found == _get_unique_code(args[c].pool, local[c].candidate_code)
       IN  IF found = {}
           THEN /\ local' = [local EXCEPT ![c].e =
                       CannotRedeemUniqueCode("invalid",
                                              local[c].candidate_code)]
                /\ pc' = [pc EXCEPT ![c] = "redeem_audit"]
                /\ UNCHANGED trx
           ELSE \E unique_code \in found :
                   IF unique_code.used
                   THEN /\ local' = [local EXCEPT ![c].e =
                               CannotRedeemUniqueCode("used",
                                                      local[c].candidate_code)]
                        /\ trx' = [trx EXCEPT ![c].updates = @ \cup
                               {_update_unique_code(unique_code.id, TRUE,
                                                    "refused")}]
                        /\ pc' = [pc EXCEPT ![c] = "redeem_audit"]
                   ELSE /\ local' = [local EXCEPT
                               ![c].unique_code = unique_code]
                        /\ pc' = [pc EXCEPT ![c] = "redeem_update"]
                        /\ UNCHANGED trx
    /\ UNCHANGED <<stores, args, result, calls, first_response, now>>

(* Mutant of _redeem_unique_code: the used flag of the row is not looked  *)
(* at.                                                                    *)
_redeem_unique_code_any_row(c) ==
    /\ pc[c] = "redeem_lookup"
    /\ LET found == _get_unique_code(args[c].pool, local[c].candidate_code)
       IN  IF found = {}
           THEN /\ local' = [local EXCEPT ![c].e =
                       CannotRedeemUniqueCode("invalid",
                                              local[c].candidate_code)]
                /\ pc' = [pc EXCEPT ![c] = "redeem_audit"]
           ELSE \E unique_code \in found :
                   /\ local' = [local EXCEPT ![c].unique_code = unique_code]
                   /\ pc' = [pc EXCEPT ![c] = "redeem_update"]
    /\ UNCHANGED <<stores, args, trx, result, calls, first_response, now>>

(* _redeem_unique_code up to the update: the row is read and judged. *)
_redeem_unique_code(c) ==
    /\ pc[c] = "redeem_lookup"
    /\ LET found == _get_unique_code(args[c].pool, local[c].candidate_code)
       IN  IF found = {}
           THEN /\ local' = [local EXCEPT ![c].e =
                       CannotRedeemUniqueCode("invalid",
                                              local[c].candidate_code)]
                /\ pc' = [pc EXCEPT ![c] = "redeem_audit"]
           ELSE \E unique_code \in found :
                   IF unique_code.used
                   THEN /\ local' = [local EXCEPT ![c].e =
                               CannotRedeemUniqueCode("used",
                                                      local[c].candidate_code)]
                        /\ pc' = [pc EXCEPT ![c] = "redeem_audit"]
                   ELSE /\ local' = [local EXCEPT
                               ![c].unique_code = unique_code]
                        /\ pc' = [pc EXCEPT ![c] = "redeem_update"]
    /\ UNCHANGED <<stores, args, trx, result, calls, first_response, now>>

(* The update of the row that was read, by its id. *)
RedeemUpdate(c) ==
    /\ pc[c] = "redeem_update"
    /\ ~RowLocked(c, args[c].pool, local[c].unique_code.id)
    /\ trx' = [trx EXCEPT ![c].updates = @ \cup
                  {_update_unique_code(local[c].unique_code.id,
                                       TRUE, "redeemed")}]
    /\ pc' = [pc EXCEPT ![c] = "redeem_audit"]
    /\ UNCHANGED <<stores, args, local, result, calls, first_response, now>>

(* Mutant of RedeemAudit: a failure is not recorded. *)
RedeemAudit_success_only(c) ==
    /\ pc[c] = "redeem_audit"
    /\ ~AuditKeyPending(c, args[c].pool, args[c].request_id)
    /\ LET e == local[c].e
           row == IF e.kind = "CannotRedeemUniqueCode"
                  THEN _audit_request(audit_params_of(args[c]),
                                      audit_req_data_of(args[c]),
                                      [reason |-> e.value.reason,
                                       unique_code |-> e.value.unique_code],
                                      local[c].candidate_code, TRUE)
                  ELSE _audit_request(audit_params_of(args[c]),
                                      audit_req_data_of(args[c]),
                                      local[c].unique_code,
                                      local[c].candidate_code, FALSE)
       IN  IF AuditKeyTaken(args[c].pool, args[c].request_id)
           THEN /\ trx' = [trx EXCEPT ![c].failed = TRUE]
                /\ local' = [local EXCEPT ![c].e = IntegrityError]
           ELSE /\ trx' = [trx EXCEPT ![c].audit =
                           IF row.error THEN @ ELSE Append(@, row)]
                /\ UNCHANGED local
    /\ pc' = [pc EXCEPT ![c] = "redeem_commit"]
    /\ UNCHANGED <<stores, args, result, calls, first_response, now>>

(* The audit row of the outcome is inserted, in the except branch or in   *)
(* the else branch.                                                       *)
RedeemAudit(c) ==
    /\ pc[c] = "redeem_audit"
    /\ ~AuditKeyPending(c, args[c].pool, args[c].request_id)
    /\ LET e == local[c].e
           row == IF e.kind = "CannotRedeemUniqueCode"
                  THEN _audit_request(audit_params_of(args[c]),
                                      audit_req_data_of(args[c]),
                                      [reason |-> e.value.reason,
                                       unique_code |-> e.value.unique_code],
                                      local[c].candidate_code, TRUE)
                  ELSE _audit_request(audit_params_of(args[c]),
                                      audit_req_data_of(args[c]),
                                      local[c].unique_code,
                                      local[c].candidate_code, FALSE)
       IN  IF AuditKeyTaken(args[c].pool, args[c].request_id)
           THEN /\ trx' = [trx EXCEPT ![c].failed = TRUE]
                /\ local' = [local EXCEPT ![c].e = IntegrityError]
           ELSE /\ trx' = [trx EXCEPT ![c].audit = Append(@, row)]
                /\ UNCHANGED local
    /\ pc' = [pc EXCEPT ![c] = "redeem_commit"]
    /\ UNCHANGED <<stores, args, result, calls, first_response, now>>

(* finally: trx.commit(), then the call returns or raises. *)
RedeemCommit(c) ==
    /\ pc[c] = "redeem_commit"
    /\ \E keep \in (IF trx[c].failed THEN BOOLEAN ELSE {TRUE}) :
           commit(c, keep)
    /\ trx' = [trx EXCEPT ![c] = NoTrx]
    /\ LET r == IF local[c].e = NoResult
                THEN Returned(local[c].unique_code)
                ELSE local[c].e
       IN  /\ result' = [result EXCEPT ![c] = r]
           /\ first_response' =
                  IF r.kind \in {"ok", "CannotRedeemUniqueCode"}
                  THEN [first_response EXCEPT
                           ![<<args[c].pool, args[c].request_id>>] = r]
                  ELSE first_response
    /\ pc' = [pc EXCEPT ![c] = "done"]
    /\ UNCHANGED <<tables, args, local, calls, now>>

----------------------------------------------------------------------------
(* import_unique_codes *)

(* The call starts: it begins its transaction and looks the request id up *)
(* in the import audit table.                                             *)
ImportCheck(c, a) ==
    /\ pc[c] = "idle"
    /\ calls < MaxCalls
    /\ calls' = calls + 1
    /\ args' = [args EXCEPT ![c] = a]
    /\ IF a.pool \notin tables
       THEN /\ trx' = [trx EXCEPT ![c] = begin]
            /\ result' = [result EXCEPT ![c] = NoUniqueCodePool(a.pool)]
            /\ pc' = [pc EXCEPT ![c] = "done"]
       ELSE LET previous ==
                    already_imported(a.pool, a.request_id, a.content_md5)
            IN  IF previous # NoPrevious
                THEN /\ trx' = [trx EXCEPT ![c] = NoTrx]
                     /\ result' = [result EXCEPT ![c] = previous]
                     /\ pc' = [pc EXCEPT ![c] = "done"]
                ELSE /\ trx' = [trx EXCEPT ![c] = begin]
                     /\ pc' = [pc EXCEPT ![c] = "import_audit"]
                     /\ UNCHANGED result
    /\ UNCHANGED <<stores, local, first_response, now>>

(* The import audit row is inserted. *)
ImportAudit(c) ==
    /\ pc[c] = "import_audit"
    /\ ~ImportKeyPending(c, args[c].pool, args[c].request_id)
    /\ IF ImportKeyTaken(args[c].pool, args[c].request_id)
       THEN /\ trx' = [trx EXCEPT ![c].failed = TRUE]
            /\ result' = [result EXCEPT ![c] = IntegrityError]
            /\ pc' = [pc EXCEPT ![c] = "done"]
       ELSE /\ trx' = [trx EXCEPT ![c].import_audit = Append(@,
                          [request_id |-> args[c].request_id,
                           content_md5 |-> args[c].content_md5])]
            /\ pc' = [pc EXCEPT ![c] = "import_insert"]
            /\ UNCHANGED result
    /\ UNCHANGED <<stores, args, local, calls, first_response, now>>

(* The code rows are inserted. *)
ImportInsert(c) ==
    /\ pc[c] = "import_insert"
    /\ trx' = [trx EXCEPT ![c].unique_codes =
                  @ \o unique_code_rows(args[c].unique_code_dicts)]
    /\ pc' = [pc EXCEPT ![c] = "import_commit"]
    /\ UNCHANGED <<stores, args, local, result, calls, first_response, now>>

(* trx.commit(), and the call returns the result of the insert. *)
ImportCommit(c) ==
    /\ pc[c] = "import_commit"
    /\ commit(c, TRUE)
    /\ trx' = [trx EXCEPT ![c] = NoTrx]
    /\ result' = [result EXCEPT ![c] = Returned(ResultProxy)]
    /\ pc' = [pc EXCEPT ![c] = "done"]
    /\ UNCHANGED <<tables, args, local, calls, first_response, now>>

----------------------------------------------------------------------------
(* The caller has its answer and closes the connection, which rolls back  *)
(* a transaction the call left open.                                      *)
Close(c) ==
    /\ pc[c] = "done"
    /\ pc' = [pc EXCEPT ![c] = "idle"]
    /\ args' = [args EXCEPT ![c] = NoArgs]
    /\ local' = [local EXCEPT ![c] = NoLocal]
    /\ trx' = [trx EXCEPT ![c] = NoTrx]
    /\ result' = [result EXCEPT ![c] = NoResult]
    /\ UNCHANGED <<stores, calls, first_response, now>>

Next ==
    \E c \in Conns :
        \/ \E a \in RedeemInputs : RedeemCheck(c, a)
        \/ _redeem_unique_code(c)
        \/ RedeemUpdate(c)
        \/ RedeemAudit(c)
        \/ RedeemCommit(c)
        \/ \E a \in ImportInputs : ImportCheck(c, a)
        \/ ImportAudit(c)
        \/ ImportInsert(c)
        \/ ImportCommit(c)
        \/ Close(c)

Spec == Init /\ [][Next]_vars

----------------------------------------------------------------------------
(* What the claims speak of *)

(* Connection c starts a call with arguments a in this step. *)
Starts(c, a) == pc[c] = "idle" /\ pc'[c] # "idle" /\ args'[c] = a

(* The committed audit rows of pool p for request id r. *)
AuditEntries(p, r) ==
    {i \in 1..Len(audit[p]) : audit[p][i].request_id = r}

(* Audit row e was recorded for a redeem with the arguments a. *)
SameRequest(e, a) ==
    /\ e.request_id = a.request_id
    /\ e.transaction_id = a.transaction_id
    /\ e.user_id = a.user_id
    /\ e.request_data = json_dumps([candidate_code |-> a.candidate_code])

(* A redeem with the arguments a has committed with the given error flag. *)
Recorded(a, error) ==
    \E i \in AuditEntries(a.pool, a.request_id) :
        SameRequest(audit[a.pool][i], a) /\ audit[a.pool][i].error = error

(* The request id of a is recorded for a redeem with other arguments. *)
RecordedOtherwise(a) ==
    \E i \in AuditEntries(a.pool, a.request_id) :
        ~SameRequest(audit[a.pool][i], a)

(* The call of c has been answered without a transaction: by the          *)
(* idempotency check alone.                                               *)
AnsweredByCheck(c) ==
    /\ pc[c] = "done"
    /\ args[c].op = "redeem"
    /\ local[c] = NoLocal

----------------------------------------------------------------------------
(* C1 - Idempotent replay: once a redeem with request id R, raw code C and *)
(* identity I has committed a success, every later redeem with the same R, *)
(* C and I is answered with the response the first call gave, and changes  *)
(* no code row and no audit row (so the used flag is not written again).   *)
C1_IdempotentReplay ==
    [][\A c \in Conns, a \in RedeemInputs :
          (Recorded(a, FALSE) /\ Starts(c, a)) =>
              /\ pc'[c] = "done"
              /\ result'[c].kind = "ok"
              /\ result'[c] = first_response[<<a.pool, a.request_id>>]
              /\ UNCHANGED <<stores, trx>>]_vars

(* A replayed success: the answer comes from the audit row, after another  *)
(* call has changed the stores in between.                                 *)
C1_Witness ==
    \E c \in Conns :
        /\ AnsweredByCheck(c)
        /\ result[c].kind = "ok"
        /\ result[c] = first_response[<<args[c].pool, args[c].request_id>>]
        /\ Len(audit[args[c].pool]) > 1

----------------------------------------------------------------------------
(* The audit rows of pool p that record a success on the code row id. *)
Successes(p, id) ==
    {k \in 1..Len(audit[p]) :
        /\ ~audit[p][k].error
        /\ json_loads(audit[p][k].response_data).id = id}

(* Row i of pool p is the only row of its code. *)
OnlyRowOfItsCode(p, i) ==
    \A j \in 1..Len(unique_codes[p]) :
        unique_codes[p][j].unique_code = unique_codes[p][i].unique_code
            => j = i

(* C2 - Exclusivity: of the first-time redeem calls with different request *)
(* ids against a code that has one row, at most one succeeds; the others   *)
(* fail with CannotRedeem 'used'.                                          *)
C2_Exclusivity ==
    \A p \in Pools : \A i \in 1..Len(unique_codes[p]) :
        OnlyRowOfItsCode(p, i) => Cardinality(Successes(p, i)) <= 1

----------------------------------------------------------------------------
(* C3 - Mismatch rejection: once an audit row exists for request id R, a   *)
(* redeem that uses R with another transaction id, user id or candidate    *)
(* code fails with AuditMismatch, whenever it comes, and leaves every code *)
(* row and every audit row as it was.                                      *)
C3_MismatchRejected ==
    [][\A c \in Conns, a \in RedeemInputs :
          (RecordedOtherwise(a) /\ Starts(c, a)) =>
              /\ pc'[c] = "done"
              /\ result'[c] = AuditMismatch
              /\ UNCHANGED <<stores, trx>>]_vars

(* A rejected reuse of a request id whose candidate code differs from the  *)
(* recorded one only in letter case.                                       *)
C3_Witness ==
    \E c \in Conns :
        /\ AnsweredByCheck(c)
        /\ result[c] = AuditMismatch
        /\ \E i \in AuditEntries(args[c].pool, args[c].request_id) :
              LET e == audit[args[c].pool][i]
              IN  /\ e.transaction_id = args[c].transaction_id
                  /\ e.user_id = args[c].user_id
                  /\ e.unique_code =
                         canonicalise_unique_code(args[c].candidate_code)

----------------------------------------------------------------------------
(* C4 - Failure is recorded and replayed: a first-time redeem that ends in *)
(* CannotRedeem ('invalid' or 'used') commits an audit row with error set  *)
(* and the response {reason, canonical code}; a later redeem with the same *)
(* request id and arguments fails with the same CannotRedeem, whatever has *)
(* become of the code store, and changes nothing.                          *)
C4_FailureRecordedAndReplayed ==
    [][/\ \A c \in Conns :
             (/\ pc[c] = "redeem_commit"
              /\ pc'[c] = "done"
              /\ result'[c].kind = "CannotRedeemUniqueCode") =>
                 /\ result'[c].value.reason \in {"invalid", "used"}
                 /\ result'[c].value.unique_code =
                        canonicalise_unique_code(args[c].candidate_code)
                 /\ \E i \in 1..Len(audit'[args[c].pool]) :
                       LET e == audit'[args[c].pool][i]
                       IN  /\ SameRequest(e, args[c])
                           /\ e.error
                           /\ e.response_data =
                                  json_dumps(result'[c].value)
       /\ \A c \in Conns, a \in RedeemInputs :
             (Recorded(a, TRUE) /\ Starts(c, a)) =>
                 /\ pc'[c] = "done"
                 /\ result'[c].kind = "CannotRedeemUniqueCode"
                 /\ result'[c] = first_response[<<a.pool, a.request_id>>]
                 /\ UNCHANGED <<stores, trx>>]_vars

(* A replayed 'invalid' although the code has been imported since and is   *)
(* unused.                                                                 *)
C4_Witness ==
    \E c \in Conns :
        /\ AnsweredByCheck(c)
        /\ result[c].kind = "CannotRedeemUniqueCode"
        /\ result[c].value.reason = "invalid"
        /\ \E i \in 1..Len(unique_codes[args[c].pool]) :
              /\ unique_codes[args[c].pool][i].unique_code =
                     result[c].value.unique_code
              /\ ~unique_codes[args[c].pool][i].used

----------------------------------------------------------------------------
(* C5 - Redemption is all-or-nothing: in every committed state a code row  *)
(* that is marked used has the audit row of a successful redemption of it. *)
C5_AllOrNothing ==
    \A p \in Pools : \A i \in 1..Len(unique_codes[p]) :
        unique_codes[p][i].used => Successes(p, unique_codes[p][i].id) # {}

----------------------------------------------------------------------------
(* C6 - In every reachable state a pool holds at most one audit row per    *)
(* request id.                                                             *)
C6_OneAuditEntryPerRequest ==
    \A p \in Pools : \A r \in ReqIds : Cardinality(AuditEntries(p, r)) <= 1

(* Two calls with one request id were in flight together, and the insert   *)
(* of the second was refused.                                              *)
C6_Witness ==
    \E c \in Conns :
        /\ pc[c] = "done"
        /\ args[c].op = "redeem"
        /\ result[c] = IntegrityError
        /\ Cardinality(AuditEntries(args[c].pool, args[c].request_id)) = 1

----------------------------------------------------------------------------
(* C7 - A redeem call whose audit insert collides with the row of a        *)
(* concurrent call with the same request id and arguments is answered as a *)
(* replay: every finished redeem call whose request is recorded has the    *)
(* answer of the call that recorded it.                                    *)
C7_CollisionAnsweredAsReplay ==
    \A c \in Conns :
        (/\ pc[c] = "done"
         /\ args[c].op = "redeem"
         /\ \E error \in BOOLEAN : Recorded(args[c], error)) =>
            result[c] = first_response[<<args[c].pool, args[c].request_id>>]

----------------------------------------------------------------------------
(* C8 - The used flag is monotonic: a step never removes a code row, never *)
(* turns used from true to false, and adds rows with used = false only.    *)
C8_UsedMonotonic ==
    [][\A p \in Pools :
          /\ Len(unique_codes'[p]) >= Len(unique_codes[p])
          /\ \A i \in 1..Len(unique_codes[p]) :
                unique_codes[p][i].used => unique_codes'[p][i].used
          /\ \A i \in (Len(unique_codes[p]) + 1)..Len(unique_codes'[p]) :
                ~unique_codes'[p][i].used]_vars

(* A used row is still used when a later import has committed and a later  *)
(* redeem of its code has been refused.                                    *)
C8_Witness ==
    \E p \in Pools : \E i \in 1..Len(unique_codes[p]) :
        /\ unique_codes[p][i].used
        /\ Len(unique_codes[p]) > i
        /\ Len(import_audit[p]) > 1
        /\ \E c \in Conns :
              /\ pc[c] = "done"
              /\ args[c].op = "redeem"
              /\ result[c].kind = "CannotRedeemUniqueCode"
              /\ result[c].value.reason = "used"

----------------------------------------------------------------------------
(* The committed import audit rows of pool p for request id r. *)
ImportEntries(p, r) ==
    {i \in 1..Len(import_audit[p]) : import_audit[p][i].request_id = r}

(* C9 - Import dedup: an import whose request id is recorded with the same *)
(* content fingerprint reports success and is a no-op: no code row and no  *)
(* import audit row is added.                                              *)
C9_ImportDedup ==
    [][\A c \in Conns, a \in ImportInputs :
          (/\ Starts(c, a)
           /\ \E i \in ImportEntries(a.pool, a.request_id) :
                 import_audit[a.pool][i].content_md5 = a.content_md5) =>
              /\ pc'[c] = "done"
              /\ result'[c] = Returned(NoneValue)
              /\ UNCHANGED stores
              /\ trx'[c] = NoTrx]_vars

(* A repeated import has been answered, and the store holds the rows of    *)
(* the first import once.                                                  *)
C9_Witness ==
    \E c \in Conns :
        /\ pc[c] = "done"
        /\ args[c].op = "import"
        /\ result[c] = Returned(NoneValue)
        /\ Len(import_audit[args[c].pool]) = 1
        /\ Len(unique_codes[args[c].pool]) = Len(args[c].unique_code_dicts)

----------------------------------------------------------------------------
(* C10 - Import mismatch: an import whose request id is recorded with      *)
(* another content fingerprint fails with AuditMismatch, inserts no code   *)
(* row and leaves the code store and the import audit rows as they were.   *)
C10_ImportMismatch ==
    [][\A c \in Conns, a \in ImportInputs :
          (/\ Starts(c, a)
           /\ \E i \in ImportEntries(a.pool, a.request_id) :
                 import_audit[a.pool][i].content_md5 # a.content_md5) =>
              /\ pc'[c] = "done"
              /\ result'[c] = AuditMismatch
              /\ UNCHANGED stores
              /\ trx'[c] = NoTrx]_vars

(* An import has been refused for its fingerprint. *)
C10_Witness ==
    \E c \in Conns :
        /\ pc[c] = "done"
        /\ args[c].op = "import"
        /\ result[c] = AuditMismatch
        /\ \E i \in ImportEntries(args[c].pool, args[c].request_id) :
              import_audit[args[c].pool][i].content_md5 # args[c].content_md5

----------------------------------------------------------------------------
(* A first-time import whose insert of the code rows fails *)

(* An error of the storage that is none of the errors of the service. *)
StorageError == [kind |-> "StorageError", value |-> <<>>]

(* The insert of the code rows raises and the connection commits what is  *)
(* pending when it is closed.                                             *)
ImportInsertFails_autocommit(c) ==
    /\ pc[c] = "import_insert"
    /\ commit(c, TRUE)
    /\ trx' = [trx EXCEPT ![c] = NoTrx]
    /\ result' = [result EXCEPT ![c] = StorageError]
    /\ pc' = [pc EXCEPT ![c] = "done"]
    /\ UNCHANGED <<tables, args, local, calls, first_response, now>>

(* The insert of the code rows raises: the error leaves                   *)
(* import_unique_codes before trx.commit(), and the finally of the        *)
(* handler closes the connection, which rolls the transaction back,       *)
(* before the caller has its answer.                                      *)
ImportInsertFails(c) ==
    /\ pc[c] = "import_insert"
    /\ trx' = [trx EXCEPT ![c] = NoTrx]
    /\ result' = [result EXCEPT ![c] = StorageError]
    /\ pc' = [pc EXCEPT ![c] = "done"]
    /\ UNCHANGED <<stores, args, local, calls, first_response, now>>

NextImport ==
    \E c \in Conns :
        \/ \E a \in ImportInputs : ImportCheck(c, a)
        \/ ImportAudit(c)
        \/ ImportInsert(c)
        \/ ImportInsertFails(c)
        \/ ImportCommit(c)
        \/ Close(c)

SpecImport == Init /\ [][NextImport]_vars

(* The code dicts of the content with fingerprint content_md5. *)
ContentOf(content_md5) ==
    (CHOOSE x \in Contents : x.content_md5 = content_md5).unique_code_dicts

(* Flavour and code of the rows of all the imports in entries, in order. *)
RECURSIVE CodesImported(_)
CodesImported(entries) ==
    IF entries = <<>>
    THEN <<>>
    ELSE LET dicts == ContentOf(Head(entries).content_md5)
         IN  [i \in 1..Len(dicts) |->
                 <<dicts[i].flavour, dicts[i].unique_code>>]
                 \o CodesImported(Tail(entries))

(* Flavour and code of the rows of the code table of pool p, in order. *)
CodesStored(p) ==
    [i \in 1..Len(unique_codes[p]) |->
        <<unique_codes[p][i].flavour, unique_codes[p][i].unique_code>>]

(* The import audit table and the code table of every pool agree. *)
ImportsAtomic ==
    \A p \in tables : CodesStored(p) = CodesImported(import_audit[p])

----------------------------------------------------------------------------
(* Pool creation, the counts and the audit queries *)

MaxNow == 1

(* Time passes. *)
Tick ==
    /\ now < MaxNow
    /\ now' = now + 1
    /\ UNCHANGED <<stores, pc, args, local, trx, result, calls,
                   first_response>>

(* The service starts on a database in which a pool does not exist, or    *)
(* was created and is empty.                                              *)
InitPools ==
    /\ tables \in SUBSET Pools
    /\ unique_codes = [p \in Pools |-> <<>>]
    /\ audit = [p \in Pools |-> <<>>]
    /\ import_audit = [p \in Pools |-> <<>>]
    /\ pc = [c \in Conns |-> "idle"]
    /\ args = [c \in Conns |-> NoArgs]
    /\ local = [c \in Conns |-> NoLocal]
    /\ trx = [c \in Conns |-> NoTrx]
    /\ result = [c \in Conns |-> NoResult]
    /\ calls = 0
    /\ first_response = [k \in Pools \X ReqIds |-> NoResult]
    /\ now = 0

CreateInputs == { [op |-> "create", pool |-> p] : p \in Pools }

CountInputs == { [op |-> "count", pool |-> p] : p \in Pools }

(* An audit query: the value asked for is an identifier, or a code when   *)
(* the field is unique_code.                                              *)
QueryArgs(p, field, id, code) ==
    [op |-> "query", pool |-> p, field |-> field, id |-> id, code |-> code]

QueryInputs ==
    { QueryArgs(p, x[1], x[2], <<>>) :
          p \in Pools,
          x \in ({"request_id"} \X ReqIds)
                   \cup ({"transaction_id"} \X {"tx-0", "tx-1"})
                   \cup ({"user_id"} \X {"user-0"}) }
    \cup
    { QueryArgs(p, "unique_code", None, code) :
          p \in Pools, code \in { <<"a">>, <<"b">> } }

(* The value an audit query asks for. *)
ValueOf(a) == IF a.field = "unique_code" THEN a.code ELSE a.id

(* The redeem and import calls that run beside them. *)
PoolRedeemInputs ==
    { RedeemArgs(p, "req-0", "tx-0", "user-0", <<"a">>) : p \in Pools }
    \cup
    { RedeemArgs(p, "req-1", "tx-0", "user-0", <<"b">>) : p \in Pools }

PoolImportInputs ==
    { a \in ImportInputs :
          \/ a.request_id = "req-0" /\ a.content_md5 = "md5-1"
          \/ a.request_id = "req-1" /\ a.content_md5 = "md5-0" }

(* What the create handler answers, with the status of the response. *)
Created(created, code) ==
    Returned([created |-> created, code |-> code])

(* Mutant of CreateCheck: pool.exists() is not asked. *)
CreateCheck_unchecked(c, a) ==
    /\ pc[c] = "idle"
    /\ calls < MaxCalls
    /\ calls' = calls + 1
    /\ args' = [args EXCEPT ![c] = a]
    /\ pc' = [pc EXCEPT ![c] = "create_tables"]
    /\ UNCHANGED <<stores, local, trx, result, first_response, now>>

(* create_pool up to the answer of pool.exists(). *)
CreateCheck(c, a) ==
    /\ pc[c] = "idle"
    /\ calls < MaxCalls
    /\ calls' = calls + 1
    /\ args' = [args EXCEPT ![c] = a]
    /\ IF a.pool \in tables
       THEN /\ result' = [result EXCEPT ![c] = Created(FALSE, 200)]
            /\ pc' = [pc EXCEPT ![c] = "done"]
       ELSE /\ pc' = [pc EXCEPT ![c] = "create_tables"]
            /\ UNCHANGED result
    /\ UNCHANGED <<stores, local, trx, first_response, now>>

(* pool.create_tables() and the answer.  When another call has created    *)
(* the tables since pool.exists() answered, the statement either fails or *)
(* finds nothing to do; the tables stay as they are.                      *)
CreateTables(c) ==
    /\ pc[c] = "create_tables"
    /\ IF args[c].pool \notin tables
       THEN /\ tables' = tables \cup {args[c].pool}
            /\ unique_codes' = [unique_codes EXCEPT ![args[c].pool] = <<>>]
            /\ audit' = [audit EXCEPT ![args[c].pool] = <<>>]
            /\ import_audit' = [import_audit EXCEPT ![args[c].pool] = <<>>]
            /\ result' = [result EXCEPT ![c] = Created(TRUE, 201)]
       ELSE /\ \/ result' = [result EXCEPT ![c] = Created(TRUE, 201)]
               \/ result' = [result EXCEPT ![c] = StorageError]
            /\ UNCHANGED stores
    /\ pc' = [pc EXCEPT ![c] = "done"]
    /\ UNCHANGED <<args, local, trx, calls, first_response, now>>

(* Mutant of GroupBy: the rows are grouped by flavour alone. *)
RECURSIVE GroupBy_flavour(_, _)
GroupBy_flavour(rows, groups) ==
    IF rows = <<>>
    THEN groups
    ELSE LET same == {k \in DOMAIN groups : k[1] = Head(rows).flavour}
         IN  GroupBy_flavour(Tail(rows),
                 IF same # {}
                 THEN [groups EXCEPT ![CHOOSE k \in same : TRUE] = @ + 1]
                 ELSE groups @@ (<<Head(rows).flavour, Head(rows).used>>
                                     :> 1))

(* The groups of GROUP BY flavour, used with the number of rows of each. *)
RECURSIVE GroupBy(_, _)
GroupBy(rows, groups) ==
    IF rows = <<>>
    THEN groups
    ELSE LET key == <<Head(rows).flavour, Head(rows).used>>
         IN  GroupBy(Tail(rows),
                     IF key \in DOMAIN groups
                     THEN [groups EXCEPT ![key] = @ + 1]
                     ELSE groups @@ (key :> 1))

(* The lists count_unique_codes may return: one row for each group, in an *)
(* order that the statement does not specify.                             *)
count_unique_codes(pool) ==
    LET groups == GroupBy(unique_codes[pool], <<>>)
        keys == DOMAIN groups
    IN  { [i \in DOMAIN order |->
              [flavour |-> order[i][1], used |-> order[i][2],
               count |-> groups[order[i]]]] :
              order \in { o \in [1..Cardinality(keys) -> keys] :
                              \A i, j \in DOMAIN o : i # j => o[i] # o[j] } }

CountUniqueCodes(c, a) ==
    /\ pc[c] = "idle"
    /\ calls < MaxCalls
    /\ calls' = calls + 1
    /\ args' = [args EXCEPT ![c] = a]
    /\ IF a.pool \notin tables
       THEN result' = [result EXCEPT ![c] = NoUniqueCodePool(a.pool)]
       ELSE \E rows \in count_unique_codes(a.pool) :
               result' = [result EXCEPT ![c] = Returned(rows)]
    /\ pc' = [pc EXCEPT ![c] = "done"]
    /\ UNCHANGED <<stores, local, trx, first_response, now>>

(* The dict _query_audit makes of an audit row. *)
AuditDict(row) ==
    [request_id |-> row.request_id,
     transaction_id |-> row.transaction_id,
     user_id |-> row.user_id,
     request_data |-> json_loads(row.request_data),
     response_data |-> json_loads(row.response_data),
     error |-> row.error,
     created_at |-> row.created_at]

(* The audit rows of the pool the WHERE clause selects. *)
Where(pool, field, value) ==
    {i \in 1..Len(audit[pool]) : audit[pool][i][field] = value}

(* The orders in which ORDER BY created_at may return the selected rows:  *)
(* rows of one created_at come in any order.                              *)
OrderByCreatedAt(pool, selected) ==
    { order \in [1..Cardinality(selected) -> selected] :
          /\ \A i, j \in DOMAIN order : i # j => order[i] # order[j]
          /\ \A i, j \in DOMAIN order :
                i < j => audit[pool][order[i]].created_at
                             <= audit[pool][order[j]].created_at }

(* Mutant of _query_audit: the rows come in the order of the table. *)
_query_audit_unordered(pool, field, value) ==
    { [i \in DOMAIN order |-> AuditDict(audit[pool][order[i]])] :
          order \in { o \in [1..Cardinality(Where(pool, field, value))
                                -> Where(pool, field, value)] :
                          \A i, j \in DOMAIN o : i < j => o[i] < o[j] } }

(* The lists _query_audit may return. *)
_query_audit(pool, field, value) ==
    { [i \in DOMAIN order |-> AuditDict(audit[pool][order[i]])] :
          order \in OrderByCreatedAt(pool, Where(pool, field, value)) }

(* query_by_request_id, query_by_transaction_id, query_by_user_id and     *)
(* query_by_unique_code, by the field of the call.                        *)
QueryAudit(c, a) ==
    /\ pc[c] = "idle"
    /\ calls < MaxCalls
    /\ calls' = calls + 1
    /\ args' = [args EXCEPT ![c] = a]
    /\ IF a.pool \notin tables
       THEN result' = [result EXCEPT ![c] = NoUniqueCodePool(a.pool)]
       ELSE \E rows \in _query_audit(a.pool, a.field, ValueOf(a)) :
               result' = [result EXCEPT ![c] = Returned(rows)]
    /\ pc' = [pc EXCEPT ![c] = "done"]
    /\ UNCHANGED <<stores, local, trx, first_response, now>>

NextPools ==
    \/ Tick
    \/ \E c \in Conns :
        \/ \E a \in CreateInputs : CreateCheck(c, a)
        \/ CreateTables(c)
        \/ \E a \in PoolRedeemInputs : RedeemCheck(c, a)
        \/ _redeem_unique_code(c)
        \/ RedeemUpdate(c)
        \/ RedeemAudit(c)
        \/ RedeemCommit(c)
        \/ \E a \in PoolImportInputs : ImportCheck(c, a)
        \/ ImportAudit(c)
        \/ ImportInsert(c)
        \/ ImportCommit(c)
        \/ \E a \in CountInputs : CountUniqueCodes(c, a)
        \/ \E a \in QueryInputs : QueryAudit(c, a)
        \/ Close(c)

SpecPools == InitPools /\ [][NextPools]_vars

----------------------------------------------------------------------------
(* A call of c starts on a pool whose tables do not exist. *)
StartsOnMissingPool(c, a) == Starts(c, a) /\ a.pool \notin tables

(* The call of c fails with NoUniqueCodePool(name) and no table changes. *)
FailsForMissingPool(c, name) ==
    /\ pc'[c] = "done"
    /\ result'[c].kind = "NoUniqueCodePool"
    /\ result'[c].value = name
    /\ UNCHANGED stores

(* C12 - Missing pool: a redeem, an import, a count or an audit query on a *)
(* pool that was never created fails with NoUniqueCodePool carrying the    *)
(* name of the pool, not with another error, and creates no pool and no    *)
(* row: a pool that was not created has no code row, no audit row and no   *)
(* import audit row.                                                       *)
C12_MissingPool ==
    /\ [](\A p \in Pools \ tables :
             /\ unique_codes[p] = <<>>
             /\ audit[p] = <<>>
             /\ import_audit[p] = <<>>)
    /\ [][\A c \in Conns :
             /\ \A a \in PoolRedeemInputs :
                   StartsOnMissingPool(c, a) => FailsForMissingPool(c, a.pool)
             /\ \A a \in PoolImportInputs :
                   StartsOnMissingPool(c, a) => FailsForMissingPool(c, a.pool)
             /\ \A a \in CountInputs :
                   StartsOnMissingPool(c, a) => FailsForMissingPool(c, a.pool)
             /\ \A a \in QueryInputs :
                   StartsOnMissingPool(c, a) => FailsForMissingPool(c, a.pool)
         ]_vars

(* A redeem and an audit query have failed on the pool that does not      *)
(* exist.                                                                 *)
C12_Witness ==
    /\ tables = {}
    /\ \E c1, c2 \in Conns :
          /\ pc[c1] = "done" /\ args[c1].op = "redeem"
          /\ pc[c2] = "done" /\ args[c2].op = "query"
          /\ result[c1].kind = "NoUniqueCodePool"
          /\ result[c1].value = args[c1].pool
          /\ result[c2].kind = "NoUniqueCodePool"
          /\ result[c2].value = args[c2].pool

----------------------------------------------------------------------------
(* C13 - Idempotent create: a create on a pool that does not exist         *)
(* answers created = TRUE with status 201 and makes its three tables,      *)
(* empty; a create that starts when the pool exists answers created =      *)
(* FALSE with status 200 and changes no table, so the rows written since   *)
(* are kept; and a pool that exists, exists ever after.                    *)
C13_CreateIdempotent ==
    [][/\ tables \subseteq tables'
       /\ \A c \in Conns :
             /\ (pc[c] = "create_tables" /\ pc'[c] = "done"
                     /\ args[c].pool \notin tables) =>
                   /\ result'[c].kind = "ok"
                   /\ result'[c].value.created
                   /\ result'[c].value.code = 201
                   /\ tables' = tables \cup {args[c].pool}
                   /\ unique_codes'[args[c].pool] = <<>>
                   /\ audit'[args[c].pool] = <<>>
                   /\ import_audit'[args[c].pool] = <<>>
             /\ \A a \in CreateInputs :
                   (Starts(c, a) /\ a.pool \in tables) =>
                       /\ pc'[c] = "done"
                       /\ result'[c].kind = "ok"
                       /\ ~result'[c].value.created
                       /\ result'[c].value.code = 200
                       /\ UNCHANGED stores]_vars

(* A create has answered created = FALSE on a pool that holds code rows    *)
(* and an audit row written after it was created.                          *)
C13_Witness ==
    \E c \in Conns :
        /\ pc[c] = "done"
        /\ args[c].op = "create"
        /\ result[c].kind = "ok"
        /\ ~result[c].value.created
        /\ result[c].value.code = 200
        /\ unique_codes[args[c].pool] # <<>>
        /\ audit[args[c].pool] # <<>>

----------------------------------------------------------------------------
(* The committed code rows of pool p whose code is the canonical form of   *)
(* the raw code.                                                           *)
RowsFor(p, raw) ==
    {i \in 1..Len(unique_codes[p]) :
        unique_codes[p][i].unique_code = canonicalise_unique_code(raw)}

(* The error e is CannotRedeemUniqueCode(reason, canonical form of raw). *)
IsCannotRedeem(e, reason, raw) ==
    /\ e.kind = "CannotRedeemUniqueCode"
    /\ e.value.reason = reason
    /\ e.value.unique_code = canonicalise_unique_code(raw)

(* C14 - Outcome by the row found: a redeem that passed the idempotency    *)
(* check and records its request id has the outcome the row found for the  *)
(* canonical code decides.  When no row has the code it fails with         *)
(* CannotRedeem('invalid', canonical code); when the row found is used it  *)
(* fails with CannotRedeem('used', canonical code); when the row found is  *)
(* unused it returns the code and the flavour of that row and the row is   *)
(* left with used = TRUE and reason 'redeemed'.                            *)
C14_OutcomeByRowFound ==
    [][\A c \in Conns :
          /\ (pc[c] = "redeem_lookup" /\ pc'[c] # "redeem_lookup") =>
                LET p == args[c].pool
                    raw == args[c].candidate_code
                IN  IF RowsFor(p, raw) = {}
                    THEN /\ IsCannotRedeem(local'[c].e, "invalid", raw)
                         /\ pc'[c] = "redeem_audit"
                    ELSE \E i \in RowsFor(p, raw) :
                            IF unique_codes[p][i].used
                            THEN /\ IsCannotRedeem(local'[c].e, "used", raw)
                                 /\ pc'[c] = "redeem_audit"
                            ELSE /\ local'[c].e = NoResult
                                 /\ local'[c].unique_code = unique_codes[p][i]
                                 /\ pc'[c] = "redeem_update"
          /\ (pc[c] = "redeem_commit" /\ pc'[c] = "done"
                  /\ local[c].e # IntegrityError) =>
                LET p == args[c].pool
                    found == local[c].unique_code
                IN  IF local[c].e = NoResult
                    THEN /\ result'[c].kind = "ok"
                         /\ result'[c].value.unique_code = found.unique_code
                         /\ result'[c].value.flavour = found.flavour
                         /\ \E i \in 1..Len(unique_codes'[p]) :
                               /\ unique_codes'[p][i].id = found.id
                               /\ unique_codes'[p][i].used
                               /\ unique_codes'[p][i].reason = "redeemed"
                    ELSE /\ result'[c] = local[c].e
                         /\ unique_codes' = unique_codes]_vars

(* A first-time redeem has returned the row it found, which is left used   *)
(* with reason 'redeemed', and another first-time redeem has failed for a  *)
(* code that no row has.                                                   *)
C14_Witness ==
    \E c1, c2 \in Conns :
        /\ pc[c1] = "done" /\ args[c1].op = "redeem" /\ ~AnsweredByCheck(c1)
        /\ result[c1].kind = "ok"
        /\ \E i \in 1..Len(unique_codes[args[c1].pool]) :
              /\ unique_codes[args[c1].pool][i].id = result[c1].value.id
              /\ unique_codes[args[c1].pool][i].used
              /\ unique_codes[args[c1].pool][i].reason = "redeemed"
        /\ pc[c2] = "done" /\ args[c2].op = "redeem" /\ ~AnsweredByCheck(c2)
        /\ IsCannotRedeem(result[c2], "invalid", args[c2].candidate_code)

----------------------------------------------------------------------------
(* Audit row e records a redeem with the identity of a and a raw code that *)
(* is not the raw code of a but has the same canonical form.               *)
SameButForErasedCharacters(e, a) ==
    /\ e.request_id = a.request_id
    /\ e.transaction_id = a.transaction_id
    /\ e.user_id = a.user_id
    /\ json_loads(e.request_data).candidate_code # a.candidate_code
    /\ canonicalise_unique_code(json_loads(e.request_data).candidate_code)
           = canonicalise_unique_code(a.candidate_code)

(* C15 - Idempotency on the raw code: a redeem that reuses a recorded      *)
(* request id with the recorded identity and a raw code that differs from  *)
(* the recorded raw code only in characters that canonicalisation erases   *)
(* or lowercases fails with AuditMismatch and is not answered as a replay; *)
(* it is refused before the code is canonicalised and before a             *)
(* transaction is begun or a table is written.                             *)
C15_RawCodeDecidesIdempotency ==
    [][\A c \in Conns, a \in RedeemInputs :
          (/\ Starts(c, a)
           /\ \E i \in AuditEntries(a.pool, a.request_id) :
                 SameButForErasedCharacters(audit[a.pool][i], a)) =>
              /\ pc'[c] = "done"
              /\ result'[c] = AuditMismatch
              /\ local'[c] = NoLocal
              /\ UNCHANGED <<stores, trx>>]_vars

(* A redeem of the raw code 'A' has been refused on a request id that is   *)
(* recorded for the raw code 'a', or the other way round.                  *)
C15_Witness ==
    \E c \in Conns :
        /\ pc[c] = "done"
        /\ args[c].op = "redeem"
        /\ result[c] = AuditMismatch
        /\ \E i \in AuditEntries(args[c].pool, args[c].request_id) :
              SameButForErasedCharacters(audit[args[c].pool][i], args[c])

----------------------------------------------------------------------------
(* canonicalise_unique_code on its own *)

MaxLen == 3

(* The characters of the raw codes: lowercase and uppercase letters,       *)
(* digits, and characters that are neither.                                *)
Chars == {"a", "b", "A", "B", "0", "1", "-", " "}

(* The strings of at most n characters. *)
RECURSIVE Strings(_)
Strings(n) ==
    IF n = 0
    THEN { <<>> }
    ELSE Strings(n - 1)
             \cup { Append(s, ch) : s \in Strings(n - 1), ch \in Chars }

RawCodes == Strings(MaxLen)

(* A raw code is handed to canonicalise_unique_code. *)
InitCanon ==
    /\ tables = Pools
    /\ unique_codes = [p \in Pools |-> <<>>]
    /\ audit = [p \in Pools |-> <<>>]
    /\ import_audit = [p \in Pools |-> <<>>]
    /\ pc = [c \in Conns |-> "idle"]
    /\ \E unique_code \in RawCodes :
          args = [c \in Conns |->
                     [op |-> "canonicalise", unique_code |-> unique_code]]
    /\ local = [c \in Conns |-> NoLocal]
    /\ trx = [c \in Conns |-> NoTrx]
    /\ result = [c \in Conns |-> NoResult]
    /\ calls = 0
    /\ first_response = [k \in Pools \X ReqIds |-> NoResult]
    /\ now = 0

(* The function returns. *)
Canonicalise(c) ==
    /\ pc[c] = "idle"
    /\ args[c].op = "canonicalise"
    /\ result' = [result EXCEPT ![c] =
                     Returned(canonicalise_unique_code(args[c].unique_code))]
    /\ pc' = [pc EXCEPT ![c] = "done"]
    /\ UNCHANGED <<stores, args, local, trx, calls, first_response, now>>

NextCanon == \E c \in Conns : Canonicalise(c)

SpecCanon == InitCanon /\ [][NextCanon]_vars

----------------------------------------------------------------------------
(* The classes of characters, by the alphabet. *)
LowercaseLetters == {"a", "b"}

UppercaseLetters == {"A", "B"}

Digits == {"0", "1"}

(* The lowercase letter of an uppercase letter. *)
LowercaseOf(ch) == IF ch = "A" THEN "a" ELSE "b"

(* The raw code in lowercase without the characters that are neither      *)
(* lowercase letters nor digits, character by character.                   *)
RECURSIVE LowercaseAlphanumerics(_)
LowercaseAlphanumerics(raw) ==
    IF raw = <<>>
    THEN <<>>
    ELSE (IF Head(raw) \in LowercaseLetters \cup Digits
          THEN <<Head(raw)>>
          ELSE IF Head(raw) \in UppercaseLetters
          THEN <<LowercaseOf(Head(raw))>>
          ELSE <<>>) \o LowercaseAlphanumerics(Tail(raw))

(* The digits of a string, in order. *)
DigitsOf(s) == SelectSeq(s, LAMBDA ch : ch \in Digits)

(* C16 - Canonical form: canonicalise_unique_code returns, for every raw   *)
(* code, the raw code in lowercase without the characters that are not     *)
(* lowercase letters or digits, the others in their order; it does not     *)
(* fail, and the digits of the raw code are the digits of the result.      *)
C16_CanonicalForm ==
    \A c \in Conns :
        pc[c] = "done" =>
            /\ result[c].kind = "ok"
            /\ result[c].value = LowercaseAlphanumerics(args[c].unique_code)
            /\ DigitsOf(result[c].value) = DigitsOf(args[c].unique_code)

(* The canonical form of 'A-0' is 'a0'. *)
C16_Witness ==
    \E c \in Conns :
        /\ pc[c] = "done"
        /\ args[c].unique_code = <<"A", "-", "0">>
        /\ result[c] = Returned(<<"a", "0">>)

----------------------------------------------------------------------------
(* The letter in the other case. *)
SwapCase(ch) ==
    CASE ch = "a" -> "A"
      [] ch = "b" -> "B"
      [] ch = "A" -> "a"
      [] ch = "B" -> "b"

(* The string s with the character ch put in before position i. *)
InsertAt(s, i, ch) ==
    SubSeq(s, 1, i - 1) \o <<ch>> \o SubSeq(s, i, Len(s))

(* The strings that differ from s in the case of one letter, or by one     *)
(* character that is neither a letter nor a digit.                         *)
OneDifference(s) ==
    { [s EXCEPT ![i] = SwapCase(s[i])] :
          i \in {j \in 1..Len(s) :
                     s[j] \in LowercaseLetters \cup UppercaseLetters} }
    \cup
    { InsertAt(s, i, ch) :
          i \in 1..(Len(s) + 1),
          ch \in Chars \ (LowercaseLetters \cup UppercaseLetters
                              \cup Digits) }

(* C17 - Idempotent canonicalisation: the canonical form of a canonical    *)
(* form is that canonical form, and a raw code that differs from another   *)
(* in the case of a letter or by a disallowed character has the same       *)
(* canonical form (and so have raw codes any number of such differences    *)
(* apart).                                                                 *)
C17_CanonicalIdempotent ==
    \A c \in Conns :
        pc[c] = "done" =>
            /\ canonicalise_unique_code(result[c].value) = result[c].value
            /\ \A other \in OneDifference(args[c].unique_code) :
                  canonicalise_unique_code(other) = result[c].value

(* A raw code that changes under canonicalisation has its canonical form,  *)
(* which canonicalisation leaves as it is.                                 *)
C17_Witness ==
    \E c \in Conns :
        /\ pc[c] = "done"
        /\ result[c].kind = "ok"
        /\ result[c].value # args[c].unique_code
        /\ result[c].value # <<>>
        /\ canonicalise_unique_code(result[c].value) = result[c].value

----------------------------------------------------------------------------
(* The flavours of the code rows of the imports. *)
Flavours == {"vanilla", "chocolate"}

(* The committed code rows of pool p with the flavour and the used flag. *)
RowsOf(p, flavour, used) ==
    {i \in 1..Len(unique_codes[p]) :
        unique_codes[p][i].flavour = flavour /\ unique_codes[p][i].used = used}

(* The sum of the counts of a list of count rows. *)
RECURSIVE SumOfCounts(_)
SumOfCounts(rows) ==
    IF rows = <<>> THEN 0 ELSE Head(rows).count + SumOfCounts(Tail(rows))

(* C18 - Counts: count_unique_codes on an existing pool returns one row    *)
(* for each pair of flavour and used flag that some code row has, with the *)
(* number of code rows of that pair as its count, and no row for a pair    *)
(* that no code row has, so nothing for an empty pool; the counts add up   *)
(* to the number of code rows; and it changes no table.                    *)
C18_Counts ==
    [][\A c \in Conns, a \in CountInputs :
          (Starts(c, a) /\ a.pool \in tables) =>
              /\ pc'[c] = "done"
              /\ result'[c].kind = "ok"
              /\ LET rows == result'[c].value
                 IN  /\ \A i \in DOMAIN rows : rows[i].flavour \in Flavours
                     /\ \A flavour \in Flavours, used \in BOOLEAN :
                           LET entries ==
                                   {i \in DOMAIN rows :
                                       /\ rows[i].flavour = flavour
                                       /\ rows[i].used = used}
                               n == Cardinality(RowsOf(a.pool, flavour, used))
                           IN  IF n = 0
                               THEN entries = {}
                               ELSE /\ Cardinality(entries) = 1
                                    /\ \A i \in entries : rows[i].count = n
                     /\ SumOfCounts(rows) = Len(unique_codes[a.pool])
              /\ UNCHANGED stores]_vars

(* A count has returned a row for the used codes and a row for the unused *)
(* codes of one flavour.                                                  *)
C18_Witness ==
    \E c \in Conns :
        /\ pc[c] = "done"
        /\ args[c].op = "count"
        /\ result[c].kind = "ok"
        /\ \E i, j \in DOMAIN result[c].value :
              /\ result[c].value[i].flavour = result[c].value[j].flavour
              /\ result[c].value[i].used
              /\ ~result[c].value[j].used

----------------------------------------------------------------------------
(* The committed audit rows of the pool of the query a whose field named   *)
(* by a has the value a asks for.                                          *)
Matching(a) ==
    {i \in 1..Len(audit[a.pool]) :
        CASE a.field = "request_id" -> audit[a.pool][i].request_id = a.id
          [] a.field = "transaction_id" ->
                 audit[a.pool][i].transaction_id = a.id
          [] a.field = "user_id" -> audit[a.pool][i].user_id = a.id
          [] a.field = "unique_code" ->
                 audit[a.pool][i].unique_code = a.code}

(* The dict is the audit row as a query reports it. *)
Reports(dict, row) ==
    /\ dict.request_id = row.request_id
    /\ dict.transaction_id = row.transaction_id
    /\ dict.user_id = row.user_id
    /\ json_dumps(dict.request_data) = row.request_data
    /\ json_dumps(dict.response_data) = row.response_data
    /\ dict.error = row.error
    /\ dict.created_at = row.created_at

(* C19 - Audit queries: a query by request_id, transaction_id, user_id or  *)
(* unique_code on an existing pool returns the committed audit rows of the *)
(* pool whose field has the value asked for, each of them once and no      *)
(* other, in ascending order of created_at, so the empty list when no row  *)
(* matches; and it changes no table.                                       *)
C19_AuditQuery ==
    [][\A c \in Conns, a \in QueryInputs :
          (Starts(c, a) /\ a.pool \in tables) =>
              /\ pc'[c] = "done"
              /\ result'[c].kind = "ok"
              /\ LET rows == result'[c].value
                 IN  /\ Len(rows) = Cardinality(Matching(a))
                     /\ \E order \in [DOMAIN rows -> Matching(a)] :
                           /\ \A i, j \in DOMAIN rows :
                                 i # j => order[i] # order[j]
                           /\ \A i \in DOMAIN rows :
                                 Reports(rows[i], audit[a.pool][order[i]])
                     /\ \A i, j \in DOMAIN rows :
                           i < j => rows[i].created_at <= rows[j].created_at
              /\ UNCHANGED stores]_vars

(* A query has returned two audit rows in the order of their created_at,   *)
(* which is not the order in which they were committed.                    *)
C19_Witness ==
    \E c \in Conns :
        /\ pc[c] = "done"
        /\ args[c].op = "query"
        /\ result[c].kind = "ok"
        /\ Len(result[c].value) = 2
        /\ result[c].value[1].created_at < result[c].value[2].created_at
        /\ Len(audit[args[c].pool]) = 2
        /\ audit[args[c].pool][1].request_id
               = result[c].value[2].request_id

----------------------------------------------------------------------------
(* The redeem endpoint *)

(* APIError(message, code) of the service library and its                  *)
(* BadRequestParams, which has the status 400.                             *)
APIError(message, code) ==
    [kind |-> "APIError", value |-> [message |-> message, code |-> code]]

BadRequestParams(message) == APIError(message, 400)

(* Mutant of handle_api_error: no failure is translated. *)
handle_api_error_untranslated(failure) == failure

(* handle_api_error: the errback of every handler. *)
handle_api_error(failure) ==
    CASE failure.kind = "NoUniqueCodePool" ->
             APIError("Unique code pool does not exist.", 404)
      [] failure.kind = "AuditMismatch" ->
             BadRequestParams("This request has already been performed with different parameters.")
      [] OTHER -> failure

(* What the handler redeem_unique_code returns or raises for what          *)
(* pool.redeem_unique_code returned or raised.                             *)
redeem_unique_code(outcome) ==
    CASE outcome.kind = "ok" ->
             Returned([unique_code |-> outcome.value.unique_code,
                       flavour |-> outcome.value.flavour])
      [] outcome.kind = "CannotRedeemUniqueCode" ->
             APIError(<<"Cannot redeem unique code: %s",
                        outcome.value.reason>>, 200)
      [] OTHER -> handle_api_error(outcome)

(* The responses the service may send for the request id: the value the    *)
(* handler returned with status 200, the message and the status of an      *)
(* APIError, and status 500 for any other failure, with the request id or  *)
(* without.                                                                *)
Responses(request_id, outcome) ==
    CASE outcome.kind = "ok" ->
             { [code |-> 200, request_id |-> request_id,
                body |-> outcome.value] }
      [] outcome.kind = "APIError" ->
             { [code |-> outcome.value.code, request_id |-> request_id,
                body |-> [error |-> outcome.value.message]] }
      [] OTHER ->
             { [code |-> 500, request_id |-> r,
                body |-> [error |-> "Internal server error."]] :
                   r \in {request_id, None} }

(* The pools exist or not when the service starts; a pool that exists      *)
(* holds the code rows of one import.                                      *)
InitApi ==
    /\ tables \in SUBSET Pools
    /\ unique_codes =
           [p \in Pools |->
               IF p \in tables
               THEN WithIds(unique_code_rows(ContentOf("md5-1")), 0)
               ELSE <<>>]
    /\ audit = [p \in Pools |-> <<>>]
    /\ import_audit =
           [p \in Pools |->
               IF p \in tables
               THEN << [request_id |-> "req-0", content_md5 |-> "md5-1"] >>
               ELSE <<>>]
    /\ pc = [c \in Conns |-> "idle"]
    /\ args = [c \in Conns |-> NoArgs]
    /\ local = [c \in Conns |-> NoLocal]
    /\ trx = [c \in Conns |-> NoTrx]
    /\ result = [c \in Conns |-> NoResult]
    /\ calls = 0
    /\ first_response = [k \in Pools \X ReqIds |-> NoResult]
    /\ now = 0

(* The handler after pool.redeem_unique_code: the finally closes the       *)
(* connection, and the response is sent.                                   *)
RedeemRespond(c) ==
    /\ pc[c] = "done"
    /\ args[c].op = "redeem"
    /\ trx' = [trx EXCEPT ![c] = NoTrx]
    /\ \E response \in Responses(args[c].request_id,
                                 redeem_unique_code(result[c])) :
          result' = [result EXCEPT ![c] =
                        [kind |-> "response", value |-> response,
                         of |-> result[c]]]
    /\ pc' = [pc EXCEPT ![c] = "responded"]
    /\ UNCHANGED <<stores, args, local, calls, first_response, now>>

(* The client has the response; the next request may come. *)
Responded(c) ==
    /\ pc[c] = "responded"
    /\ pc' = [pc EXCEPT ![c] = "idle"]
    /\ args' = [args EXCEPT ![c] = NoArgs]
    /\ local' = [local EXCEPT ![c] = NoLocal]
    /\ result' = [result EXCEPT ![c] = NoResult]
    /\ UNCHANGED <<stores, trx, calls, first_response, now>>

NextApi ==
    \E c \in Conns :
        \/ \E a \in RedeemInputs : RedeemCheck(c, a)
        \/ _redeem_unique_code(c)
        \/ RedeemUpdate(c)
        \/ RedeemAudit(c)
        \/ RedeemCommit(c)
        \/ RedeemRespond(c)
        \/ Responded(c)

SpecApi == InitApi /\ [][NextApi]_vars

(* C20 - Responses of the redeem endpoint: a success is answered with      *)
(* status 200 and the code and the flavour of the row; CannotRedeem with   *)
(* status 200 and the error 'Cannot redeem unique code: <reason>'; a       *)
(* missing pool with status 404; AuditMismatch with status 400; and each   *)
(* of these responses carries the request id of the call.                  *)
C20_RedeemResponses ==
    \A c \in Conns :
        pc[c] = "responded" =>
            LET outcome == result[c].of
                response == result[c].value
            IN  /\ outcome.kind = "ok" =>
                      /\ response.code = 200
                      /\ response.body =
                             [unique_code |-> outcome.value.unique_code,
                              flavour |-> outcome.value.flavour]
                /\ outcome.kind = "CannotRedeemUniqueCode" =>
                      /\ response.code = 200
                      /\ response.body =
                             [error |-> <<"Cannot redeem unique code: %s",
                                          outcome.value.reason>>]
                /\ outcome.kind = "NoUniqueCodePool" => response.code = 404
                /\ outcome.kind = "AuditMismatch" => response.code = 400
                /\ outcome.kind \in {"ok", "CannotRedeemUniqueCode",
                                     "NoUniqueCodePool", "AuditMismatch"} =>
                      response.request_id = args[c].request_id

(* One redeem has been answered with status 200 and the error of a used    *)
(* code, and another with status 400.                                      *)
C20_Witness ==
    \E c1, c2 \in Conns :
        /\ pc[c1] = "responded"
        /\ result[c1].of.kind = "CannotRedeemUniqueCode"
        /\ result[c1].value.code = 200
        /\ result[c1].value.body.error[2] = "used"
        /\ pc[c2] = "responded"
        /\ result[c2].of.kind = "AuditMismatch"
        /\ result[c2].value.code = 400

----------------------------------------------------------------------------
(* Two pools side by side *)

(* UniqueCodePool(name, conn) works on the tables of the pool called name. *)
TwoPools == {"testpool", "otherpool"}

(* The service starts on a database in which each of the two pools exists  *)
(* and is empty, or does not exist.                                        *)
InitTwoPools ==
    /\ tables \in SUBSET TwoPools
    /\ unique_codes = [p \in TwoPools |-> <<>>]
    /\ audit = [p \in TwoPools |-> <<>>]
    /\ import_audit = [p \in TwoPools |-> <<>>]
    /\ pc = [c \in Conns |-> "idle"]
    /\ args = [c \in Conns |-> NoArgs]
    /\ local = [c \in Conns |-> NoLocal]
    /\ trx = [c \in Conns |-> NoTrx]
    /\ result = [c \in Conns |-> NoResult]
    /\ calls = 0
    /\ first_response = [k \in TwoPools \X ReqIds |-> NoResult]
    /\ now = 0

(* The same calls on each of the two pools: the same request id and the    *)
(* same code in both.                                                      *)
TwoPoolsCreateInputs == { [op |-> "create", pool |-> p] : p \in TwoPools }

TwoPoolsRedeemInputs ==
    { RedeemArgs(p, "req-0", "tx-0", "user-0", <<"a">>) : p \in TwoPools }

TwoPoolsImportInputs ==
    { [op |-> "import", pool |-> p, request_id |-> "req-0",
       content_md5 |-> "md5-0",
       unique_code_dicts |-> <<unique_code_dict("vanilla", <<"a">>)>>] :
          p \in TwoPools }

TwoPoolsCountInputs == { [op |-> "count", pool |-> p] : p \in TwoPools }

TwoPoolsQueryInputs ==
    { QueryArgs(p, "request_id", "req-0", <<>>) : p \in TwoPools }

NextTwoPools ==
    \E c \in Conns :
        \/ \E a \in TwoPoolsCreateInputs : CreateCheck(c, a)
        \/ CreateTables(c)
        \/ \E a \in TwoPoolsRedeemInputs : RedeemCheck(c, a)
        \/ _redeem_unique_code(c)
        \/ RedeemUpdate(c)
        \/ RedeemAudit(c)
        \/ RedeemCommit(c)
        \/ \E a \in TwoPoolsImportInputs : ImportCheck(c, a)
        \/ ImportAudit(c)
        \/ ImportInsert(c)
        \/ ImportCommit(c)
        \/ \E a \in TwoPoolsCountInputs : CountUniqueCodes(c, a)
        \/ \E a \in TwoPoolsQueryInputs : QueryAudit(c, a)
        \/ Close(c)

SpecTwoPools == InitTwoPools /\ [][NextTwoPools]_vars

(* The tables of pool q are what they were. *)
PoolUnchanged(q) ==
    /\ (q \in tables') = (q \in tables)
    /\ unique_codes'[q] = unique_codes[q]
    /\ audit'[q] = audit[q]
    /\ import_audit'[q] = import_audit[q]

(* C21 - Independent pools: a step of a create, an import, a redeem, a     *)
(* count or an audit query on one pool leaves the existence, the code      *)
(* rows, the audit rows and the import audit rows of every other pool as   *)
(* they were; and a request id that is recorded in another pool only is a  *)
(* new request id in this pool: the redeem is not answered from the audit  *)
(* rows of the other pool, and the import is carried out.                  *)
C21_PoolsIndependent ==
    [][\A c \in Conns :
          /\ pc'[c] # pc[c] =>
                LET p == IF pc[c] = "idle" THEN args'[c].pool
                         ELSE args[c].pool
                IN  \A q \in TwoPools \ {p} : PoolUnchanged(q)
          /\ \A a \in TwoPoolsRedeemInputs :
                (/\ Starts(c, a)
                 /\ a.pool \in tables
                 /\ AuditEntries(a.pool, a.request_id) = {}) =>
                    pc'[c] = "redeem_lookup"
          /\ \A a \in TwoPoolsImportInputs :
                (/\ Starts(c, a)
                 /\ a.pool \in tables
                 /\ ImportEntries(a.pool, a.request_id) = {}) =>
                    pc'[c] = "import_audit"
          /\ (pc[c] = "redeem_lookup" /\ pc'[c] # "redeem_lookup") =>
                ((pc'[c] = "redeem_update")
                     = (\E i \in RowsFor(args[c].pool,
                                         args[c].candidate_code) :
                           ~unique_codes[args[c].pool][i].used))]_vars

(* One request id and one code have been used in both pools: the redeem    *)
(* succeeded in the pool that holds the code and failed in the other.      *)
C21_Witness ==
    \E p, q \in TwoPools :
        /\ p # q
        /\ \E i \in AuditEntries(p, "req-0") : ~audit[p][i].error
        /\ \E i \in AuditEntries(q, "req-0") : audit[q][i].error
        /\ Len(unique_codes[p]) = 1 /\ unique_codes[p][1].used
        /\ unique_codes[q] = <<>>

----------------------------------------------------------------------------
(* The number of committed code rows of pool p with the flavour and the    *)
(* used flag, after the step.                                              *)
RowsOfAfter(p, flavour, used) ==
    {i \in 1..Len(unique_codes'[p]) :
        /\ unique_codes'[p][i].flavour = flavour
        /\ unique_codes'[p][i].used = used}

(* C22 - Effect of a redemption: the commit of a successful first-time     *)
(* redeem changes one code row, from used = FALSE to used = TRUE: the      *)
(* count of the unused codes of its flavour drops by one, the count of the *)
(* used codes of its flavour rises by one, the number of rows stays, and   *)
(* every other row keeps its code, flavour, used flag and reason.          *)
C22_RedemptionChangesOneRow ==
    [][\A c \in Conns :
          (/\ pc[c] = "redeem_commit"
           /\ pc'[c] = "done"
           /\ result'[c].kind = "ok") =>
              LET p == args[c].pool
                  flavour == result'[c].value.flavour
              IN  /\ Len(unique_codes'[p]) = Len(unique_codes[p])
                  /\ \E i \in 1..Len(unique_codes[p]) :
                        /\ unique_codes[p][i].id = result'[c].value.id
                        /\ ~unique_codes[p][i].used
                        /\ unique_codes'[p][i].used
                        /\ \A j \in 1..Len(unique_codes[p]) :
                              j # i => unique_codes'[p][j] = unique_codes[p][j]
                  /\ Cardinality(RowsOfAfter(p, flavour, FALSE))
                         = Cardinality(RowsOf(p, flavour, FALSE)) - 1
                  /\ Cardinality(RowsOfAfter(p, flavour, TRUE))
                         = Cardinality(RowsOf(p, flavour, TRUE)) + 1]_vars

----------------------------------------------------------------------------
(* C23 - Growth of the audit log: the commit of a redeem call that found   *)
(* no audit row for its request id and ends in success or in CannotRedeem  *)
(* appends one audit row, the row of its request id; a call that is        *)
(* answered as a replay, refused with AuditMismatch or failed with         *)
(* NoUniqueCodePool appends none and leaves none pending; and no other     *)
(* step of a redeem call changes the audit log.                            *)
C23_AuditGrowth ==
    [][\A c \in Conns :
          LET p == args[c].pool
          IN  /\ (/\ pc[c] = "redeem_commit"
                  /\ pc'[c] = "done"
                  /\ result'[c].kind \in {"ok", "CannotRedeemUniqueCode"}) =>
                     /\ Len(audit'[p]) = Len(audit[p]) + 1
                     /\ SubSeq(audit'[p], 1, Len(audit[p])) = audit[p]
                     /\ audit'[p][Len(audit'[p])].request_id
                            = args[c].request_id
              /\ \A a \in RedeemInputs :
                    (Starts(c, a) /\ pc'[c] = "done") =>
                        /\ result'[c].kind \in
                               {"ok", "CannotRedeemUniqueCode",
                                "AuditMismatch", "NoUniqueCodePool"}
                        /\ audit' = audit
                        /\ trx'[c] = NoTrx
              /\ (pc'[c] # pc[c] /\ pc[c] # "redeem_commit") =>
                     audit' = audit]_vars

(* Two redeem calls have ended in success, one of them as a replay, and    *)
(* the audit log holds one row.                                            *)
C23_Witness ==
    \E c1, c2 \in Conns :
        /\ pc[c1] = "done" /\ args[c1].op = "redeem" /\ ~AnsweredByCheck(c1)
        /\ pc[c2] = "done" /\ args[c2].op = "redeem" /\ AnsweredByCheck(c2)
        /\ result[c1].kind = "ok"
        /\ result[c2].kind = "ok"
        /\ Len(audit[args[c1].pool]) = 1

----------------------------------------------------------------------------
(* Every row of the table is, after the step, the row it was. *)
RowsKept(before, after) ==
    /\ Len(after) >= Len(before)
    /\ \A i \in 1..Len(before) : after[i] = before[i]

(* C24 - Append-only logs: a step never changes and never removes a        *)
(* committed audit row or a committed import audit row: every committed    *)
(* row is in the next state with its request id, identity, request data,   *)
(* response data, error flag and fingerprint.                              *)
C24_AppendOnlyLogs ==
    [][\A p \in Pools :
          /\ RowsKept(audit[p], audit'[p])
          /\ RowsKept(import_audit[p], import_audit'[p])]_vars

(* Audit rows and import audit rows were committed one after another. *)
C24_Witness ==
    \E p \in Pools :
        /\ Len(audit[p]) >= 2
        /\ Len(import_audit[p]) >= 2

----------------------------------------------------------------------------
(* C25 - One write per code row: the commit of a redemption writes rows    *)
(* that were unused until then, so no row is written by two redemptions;   *)
(* a used row is never written again, and no step removes a code row or    *)
(* changes its code or flavour.                                            *)
C25_OneWritePerRow ==
    [][\A p \in Pools :
          /\ Len(unique_codes'[p]) >= Len(unique_codes[p])
          /\ \A i \in 1..Len(unique_codes[p]) :
                /\ unique_codes'[p][i].id = unique_codes[p][i].id
                /\ unique_codes'[p][i].unique_code
                       = unique_codes[p][i].unique_code
                /\ unique_codes'[p][i].flavour = unique_codes[p][i].flavour
                /\ unique_codes[p][i].used =>
                       unique_codes'[p][i] = unique_codes[p][i]
                /\ \A c \in Conns :
                      (/\ pc[c] = "redeem_commit"
                       /\ pc'[c] = "done"
                       /\ args[c].pool = p
                       /\ \E u \in trx[c].updates :
                             u.id = unique_codes[p][i].id) =>
                          ~unique_codes[p][i].used]_vars

----------------------------------------------------------------------------
(* C26 - Comparison before replay: when the audit row of request id R      *)
(* records a failure, a redeem call on R that differs from the recorded    *)
(* one in transaction id, user id or raw code fails with AuditMismatch and *)
(* not with the recorded CannotRedeem; the recorded CannotRedeem is raised *)
(* again only when all three are the recorded ones.                        *)
C26_ComparisonBeforeReplay ==
    [][\A c \in Conns, a \in RedeemInputs :
          \A i \in 1..Len(audit[a.pool]) :
             LET row == audit[a.pool][i]
             IN  (/\ Starts(c, a)
                  /\ row.request_id = a.request_id
                  /\ row.error) =>
                     /\ pc'[c] = "done"
                     /\ IF /\ row.transaction_id = a.transaction_id
                           /\ row.user_id = a.user_id
                           /\ json_loads(row.request_data).candidate_code
                                  = a.candidate_code
                        THEN /\ result'[c].kind = "CannotRedeemUniqueCode"
                             /\ result'[c].value
                                    = json_loads(row.response_data)
                        ELSE result'[c].kind = "AuditMismatch"]_vars

(* Of two calls on a request id whose audit row records a failure, one was *)
(* refused with AuditMismatch and one got the recorded CannotRedeem.       *)
C26_Witness ==
    \E c1, c2 \in Conns :
        /\ AnsweredByCheck(c1)
        /\ AnsweredByCheck(c2)
        /\ args[c1].pool = args[c2].pool
        /\ args[c1].request_id = args[c2].request_id
        /\ result[c1].kind = "AuditMismatch"
        /\ result[c2].kind = "CannotRedeemUniqueCode"
        /\ \E i \in 1..Len(audit[args[c1].pool]) :
              /\ audit[args[c1].pool][i].request_id = args[c1].request_id
              /\ audit[args[c1].pool][i].error

----------------------------------------------------------------------------
(* Imports and redemptions of codes that are not in canonical form: the   *)
(* import handler reads the rows of the CSV content and passes the codes  *)
(* on as they are written there.                                          *)

RawContents ==
    { [content_md5 |-> "md5-0",
       unique_code_dicts |-> <<unique_code_dict("vanilla", <<"a">>)>>],
      [content_md5 |-> "md5-2",
       unique_code_dicts |-> <<unique_code_dict("vanilla", <<"A">>)>>] }

RawImportInputs ==
    { [op |-> "import", pool |-> p, request_id |-> x[1],
       content_md5 |-> x[2].content_md5,
       unique_code_dicts |-> x[2].unique_code_dicts] :
          p \in Pools,
          x \in { y \in ReqIds \X RawContents :
                    \/ y[1] = "req-0" /\ y[2].content_md5 = "md5-0"
                    \/ y[1] = "req-1" /\ y[2].content_md5 = "md5-2" } }

RawRedeemInputs ==
    { RedeemArgs(p, x[1], "tx-0", "user-0", x[2]) :
          p \in Pools,
          x \in { <<"req-0", <<"A">>>>,
                  <<"req-1", <<"-", "a">>>>,
                  <<"req-1", <<"B">>>> } }

RawQueryInputs ==
    { QueryArgs(p, "unique_code", None, code) :
          p \in Pools, code \in { <<"a">>, <<"A">>, <<"b">> } }

NextRaw ==
    \E c \in Conns :
        \/ \E a \in RawRedeemInputs : RedeemCheck(c, a)
        \/ _redeem_unique_code(c)
        \/ RedeemUpdate(c)
        \/ RedeemAudit(c)
        \/ RedeemCommit(c)
        \/ \E a \in RawImportInputs : ImportCheck(c, a)
        \/ ImportAudit(c)
        \/ ImportInsert(c)
        \/ ImportCommit(c)
        \/ \E a \in RawQueryInputs : QueryAudit(c, a)
        \/ Close(c)

SpecRaw == Init /\ [][NextRaw]_vars

(* C27 - Stored codes are canonical: in every committed state the code of  *)
(* every code row is its own canonical form.                               *)
C27_StoredCodesCanonical ==
    \A p \in Pools : \A i \in 1..Len(unique_codes[p]) :
        unique_codes[p][i].unique_code
            = canonicalise_unique_code(unique_codes[p][i].unique_code)

----------------------------------------------------------------------------
(* The canonical form of a raw code: lower case, without the characters   *)
(* that are neither lower-case letters nor digits.                        *)
CanonicalOfRaw(raw) == LowercaseAlphanumerics(raw)

(* C28 - A first-time redeem works on the canonical form of its raw code:  *)
(* it fails as invalid only when no committed row has the canonical code   *)
(* and otherwise judges such a row; the code it returns on success and the *)
(* code a CannotRedeem carries are the canonical code; its audit row keeps *)
(* the raw code in request_data and the canonical code in unique_code; and *)
(* an audit query by a code returns the audit row of every recorded call   *)
(* whose raw code has that canonical form.                                 *)
C28_CanonicalLookupAndRecord ==
    [][/\ \A c \in Conns :
             LET p == args[c].pool
                 raw == args[c].candidate_code
             IN  /\ (pc[c] = "redeem_lookup" /\ pc'[c] = "redeem_update") =>
                        /\ local'[c].unique_code.unique_code
                               = CanonicalOfRaw(raw)
                        /\ \E i \in 1..Len(unique_codes[p]) :
                              /\ unique_codes[p][i].id
                                     = local'[c].unique_code.id
                              /\ unique_codes[p][i].unique_code
                                     = CanonicalOfRaw(raw)
                 /\ (pc[c] = "redeem_lookup" /\ pc'[c] = "redeem_audit") =>
                        /\ local'[c].e.kind = "CannotRedeemUniqueCode"
                        /\ local'[c].e.value.unique_code = CanonicalOfRaw(raw)
                        /\ (local'[c].e.value.reason = "invalid") <=>
                               (\A i \in 1..Len(unique_codes[p]) :
                                    unique_codes[p][i].unique_code
                                        # CanonicalOfRaw(raw))
                 /\ (/\ pc[c] = "redeem_commit"
                     /\ pc'[c] = "done"
                     /\ result'[c].kind \in
                            {"ok", "CannotRedeemUniqueCode"}) =>
                        /\ result'[c].value.unique_code = CanonicalOfRaw(raw)
                        /\ LET e == audit'[p][Len(audit'[p])]
                           IN  /\ Len(audit'[p]) = Len(audit[p]) + 1
                               /\ e.request_id = args[c].request_id
                               /\ json_loads(e.request_data).candidate_code
                                      = raw
                               /\ e.unique_code = CanonicalOfRaw(raw)
       /\ \A c \in Conns, a \in RawQueryInputs :
             Starts(c, a) =>
                 /\ result'[c].kind = "ok"
                 /\ \A i \in 1..Len(audit[a.pool]) :
                       CanonicalOfRaw(json_loads(audit[a.pool][i].request_data)
                                          .candidate_code) = a.code =>
                           \E k \in 1..Len(result'[c].value) :
                               /\ result'[c].value[k].request_id
                                      = audit[a.pool][i].request_id
                               /\ result'[c].value[k].request_data
                                      .candidate_code
                                      = json_loads(audit[a.pool][i]
                                            .request_data).candidate_code]_vars

(* A query by the canonical code has returned the audit rows of a          *)
(* successful redemption and of a failed one, both made with raw codes     *)
(* that are not in canonical form.                                         *)
C28_Witness ==
    \E c \in Conns :
        /\ pc[c] = "done"
        /\ args[c].op = "query"
        /\ result[c].kind = "ok"
        /\ \E k, l \in 1..Len(result[c].value) :
              /\ ~result[c].value[k].error
              /\ result[c].value[k].request_data.candidate_code # args[c].code
              /\ result[c].value[l].error
              /\ result[c].value[l].request_data.candidate_code # args[c].code

----------------------------------------------------------------------------
(* The import endpoint *)

(* hashlib.md5(content).hexdigest() of the contents of the sample. *)
md5_hexdigest(content) ==
    (CHOOSE x \in Contents : x.unique_code_dicts = content).content_md5

(* str.lower() of the value of a Content-MD5 header. *)
lower_content_md5(header) ==
    CASE header = "MD5-0" -> "md5-0"
      [] header = "MD5-1" -> "md5-1"
      [] OTHER -> header

(* PUT /<pool>/import/<request_id>: the header is missing, is no digest,   *)
(* is the digest of one of the contents, in upper case or in lower case.   *)
ImportRequests ==
    { [op |-> "import", pool |-> p, request_id |-> r,
       header |-> h, content |-> x.unique_code_dicts] :
          p \in Pools, r \in ReqIds,
          h \in {None, "badmd5", "MD5-0", "md5-1"}, x \in Contents }

(* The arguments of pool.import_unique_codes for a request. *)
ImportArgsOf(request, content_md5) ==
    [op |-> "import", pool |-> request.pool,
     request_id |-> request.request_id,
     header |-> request.header,
     content_md5 |-> content_md5,
     unique_code_dicts |-> request.content]

(* Mutant of ImportRequest: the header is not compared with the content. *)
ImportRequest_uncompared(c, request) ==
    IF request.header = None
    THEN /\ pc[c] = "idle"
         /\ calls < MaxCalls
         /\ calls' = calls + 1
         /\ args' = [args EXCEPT ![c] = ImportArgsOf(request, None)]
         /\ result' = [result EXCEPT ![c] =
                          BadRequestParams("Missing Content-MD5 header.")]
         /\ pc' = [pc EXCEPT ![c] = "done"]
         /\ UNCHANGED <<stores, local, trx, first_response, now>>
    ELSE ImportCheck(c, ImportArgsOf(request,
                            lower_content_md5(request.header)))

(* The handler import_unique_codes up to the first statement of            *)
(* pool.import_unique_codes: the header is checked before the connection   *)
(* is made.                                                                *)
ImportRequest(c, request) ==
    IF request.header = None
    THEN /\ pc[c] = "idle"
         /\ calls < MaxCalls
         /\ calls' = calls + 1
         /\ args' = [args EXCEPT ![c] = ImportArgsOf(request, None)]
         /\ result' = [result EXCEPT ![c] =
                          BadRequestParams("Missing Content-MD5 header.")]
         /\ pc' = [pc EXCEPT ![c] = "done"]
         /\ UNCHANGED <<stores, local, trx, first_response, now>>
    ELSE IF lower_content_md5(request.header)
                # md5_hexdigest(request.content)
    THEN /\ pc[c] = "idle"
         /\ calls < MaxCalls
         /\ calls' = calls + 1
         /\ args' = [args EXCEPT ![c] =
                        ImportArgsOf(request,
                                     lower_content_md5(request.header))]
         /\ result' = [result EXCEPT ![c] =
                          BadRequestParams(
                              "Content-MD5 header does not match content.")]
         /\ pc' = [pc EXCEPT ![c] = "done"]
         /\ UNCHANGED <<stores, local, trx, first_response, now>>
    ELSE ImportCheck(c, ImportArgsOf(request,
                            lower_content_md5(request.header)))

(* What the handler import_unique_codes returns or raises for what it or   *)
(* pool.import_unique_codes returned or raised.                            *)
import_unique_codes(outcome) ==
    CASE outcome.kind = "ok" -> Returned([imported |-> TRUE])
      [] OTHER -> handle_api_error(outcome)

(* The responses to an import request: status 201 for the value the        *)
(* handler returned, and the responses of a failure.                       *)
ImportResponses(request_id, outcome) ==
    CASE outcome.kind = "ok" ->
             { [code |-> 201, request_id |-> request_id,
                body |-> outcome.value] }
      [] OTHER -> Responses(request_id, outcome)

(* The handler after pool.import_unique_codes or after the refusal of the  *)
(* header: a connection that was made is closed, and the response is sent. *)
ImportRespond(c) ==
    /\ pc[c] = "done"
    /\ args[c].op = "import"
    /\ trx' = [trx EXCEPT ![c] = NoTrx]
    /\ \E response \in ImportResponses(args[c].request_id,
                                       import_unique_codes(result[c])) :
          result' = [result EXCEPT ![c] =
                        [kind |-> "response", value |-> response,
                         of |-> result[c]]]
    /\ pc' = [pc EXCEPT ![c] = "responded"]
    /\ UNCHANGED <<stores, args, local, calls, first_response, now>>

NextImportApi ==
    \E c \in Conns :
        \/ \E request \in ImportRequests : ImportRequest(c, request)
        \/ ImportAudit(c)
        \/ ImportInsert(c)
        \/ ImportCommit(c)
        \/ ImportRespond(c)
        \/ Responded(c)

SpecImportApi == InitPools /\ [][NextImportApi]_vars

(* The import request of c has no Content-MD5 header, or one that is not   *)
(* the MD5 of its content in upper or lower case.                          *)
HeaderRefused(a) ==
    \/ a.header = None
    \/ lower_content_md5(a.header) # md5_hexdigest(a.unique_code_dicts)

(* C29 - Refusal of a bad Content-MD5: an import request without the       *)
(* header, or with a header that is not the MD5 of the content, fails with *)
(* a bad-request error in its first step and is answered with status 400   *)
(* and its request id; neither step changes a table or opens a             *)
(* transaction, also when the pool does not exist; and an import request   *)
(* with the right header on an existing pool whose import audit table does *)
(* not hold its request id goes on to insert its import audit row.         *)
C29_BadContentMd5Refused ==
    [][\A c \in Conns :
          /\ (/\ pc[c] = "idle"
              /\ pc'[c] # "idle"
              /\ HeaderRefused(args'[c])) =>
                 /\ pc'[c] = "done"
                 /\ result'[c].kind = "APIError"
                 /\ result'[c].value.code = 400
                 /\ result'[c].value.message =
                        (IF args'[c].header = None
                         THEN "Missing Content-MD5 header."
                         ELSE "Content-MD5 header does not match content.")
                 /\ trx'[c] = NoTrx
                 /\ UNCHANGED stores
          /\ (/\ pc[c] = "done"
              /\ pc'[c] = "responded"
              /\ HeaderRefused(args[c])) =>
                 /\ result'[c].value.code = 400
                 /\ result'[c].value.request_id = args[c].request_id
                 /\ result'[c].value.body.error = result[c].value.message
                 /\ UNCHANGED stores
          /\ (/\ pc[c] = "idle"
              /\ pc'[c] # "idle"
              /\ ~HeaderRefused(args'[c])
              /\ args'[c].pool \in tables
              /\ \A i \in 1..Len(import_audit[args'[c].pool]) :
                    import_audit[args'[c].pool][i].request_id
                        # args'[c].request_id) =>
                 /\ pc'[c] = "import_audit"
                 /\ trx'[c].open]_vars

(* A request with a bad header was answered with status 400, an import on  *)
(* the same request id was answered with status 201, and the pool holds    *)
(* the rows of that import and no other.                                   *)
C29_Witness ==
    \E c1, c2 \in Conns :
        /\ pc[c1] = "responded"
        /\ pc[c2] = "responded"
        /\ args[c1].pool = args[c2].pool
        /\ args[c1].request_id = args[c2].request_id
        /\ args[c1].header # None
        /\ HeaderRefused(args[c1])
        /\ result[c1].value.code = 400
        /\ result[c2].value.code = 201
        /\ result[c2].of.kind = "ok"
        /\ result[c2].of.value = ResultProxy
        /\ Len(import_audit[args[c2].pool]) = 1
        /\ Len(unique_codes[args[c2].pool]) = Len(args[c2].unique_code_dicts)

----------------------------------------------------------------------------
(* Progress of the calls.  The reactor runs every callback that is ready, *)
(* and the store answers every statement: a step that does not wait for a *)
(* lock is taken when it stays enabled, and a step that waits for a row   *)
(* lock or for a unique key is taken when the lock is free again and      *)
(* again, as the store serves the waiters of a lock in turn.              *)

LiveRedeemInputs ==
    { RedeemArgs(p, x[1], "tx-0", "user-0", x[2]) :
          p \in Pools,
          x \in { <<"req-0", <<"a">>>>,
                  <<"req-1", <<"a">>>>,
                  <<"req-0", <<"b">>>> } }

LiveImportInputs ==
    { a \in ImportInputs : a.request_id = "req-1" }

NextLive ==
    \E c \in Conns :
        \/ \E a \in LiveRedeemInputs : RedeemCheck(c, a)
        \/ _redeem_unique_code(c)
        \/ RedeemUpdate(c)
        \/ RedeemAudit(c)
        \/ RedeemCommit(c)
        \/ \E a \in LiveImportInputs : ImportCheck(c, a)
        \/ ImportAudit(c)
        \/ ImportInsert(c)
        \/ ImportCommit(c)
        \/ Close(c)

FairLive ==
    \A c \in Conns :
        /\ WF_vars(_redeem_unique_code(c))
        /\ SF_vars(RedeemUpdate(c))
        /\ SF_vars(RedeemAudit(c))
        /\ WF_vars(RedeemCommit(c))
        /\ SF_vars(ImportAudit(c))
        /\ WF_vars(ImportInsert(c))
        /\ WF_vars(ImportCommit(c))
        /\ WF_vars(Close(c))

SpecLive == InitApi /\ [][NextLive]_vars /\ FairLive

(* The call on connection c has started and has not returned. *)
InFlight(c) == pc[c] \notin {"idle", "done"}

(* C30 - No call blocks for ever: every redeem call and every import call  *)
(* that has started returns, with a result or with a failure, whatever the *)
(* other connection does on the pool in the meantime.                      *)
C30_CallsComplete ==
    \A c \in Conns :
        InFlight(c) ~>
            (/\ pc[c] = "done"
             /\ result[c].kind \in
                    {"ok", "CannotRedeemUniqueCode", "AuditMismatch",
                     "NoUniqueCodePool", "IntegrityError"})

(* A redeem call waits for the lock of a row that the other call has       *)
(* written and not yet committed.                                          *)
C30_Witness ==
    \E c \in Conns :
        /\ pc[c] = "redeem_update"
        /\ RowLocked(c, args[c].pool, local[c].unique_code.id)

----------------------------------------------------------------------------
(* The rows of pool p that hold the code and are used. *)
UsedRowsOf(p, code) ==
    {i \in 1..Len(unique_codes[p]) :
        /\ unique_codes[p][i].unique_code = code
        /\ unique_codes[p][i].used}

(* The audit rows of pool p that record a success on the code. *)
SuccessEntriesOf(p, code) ==
    {k \in 1..Len(audit[p]) :
        /\ ~audit[p][k].error
        /\ audit[p][k].unique_code = code}

(* C31 - Used rows and recorded successes: in every committed state of a   *)
(* pool, every code has as many used rows as the audit table has rows      *)
(* with error = FALSE on that code.                                        *)
C31_UsedRowsMatchSuccesses ==
    \A p \in Pools :
        \A code \in {unique_codes[p][i].unique_code :
                         i \in 1..Len(unique_codes[p])}
                    \cup {audit[p][k].unique_code : k \in 1..Len(audit[p])} :
            Cardinality(UsedRowsOf(p, code))
                = Cardinality(SuccessEntriesOf(p, code))

----------------------------------------------------------------------------
(* C32 - Concurrent creates: a create call that reports created = TRUE is  *)
(* the call that made the tables of the pool, so of the create calls for   *)
(* one pool at most one reports a creation, however they interleave.       *)
C32_OneCreationReported ==
    [][\A c \in Conns :
          (/\ pc[c] = "create_tables"
           /\ pc'[c] = "done"
           /\ result'[c].kind = "ok"
           /\ result'[c].value.created) =>
              /\ args[c].pool \notin tables
              /\ tables' = tables \cup {args[c].pool}]_vars

----------------------------------------------------------------------------
(* C33 - No transaction outlives its call: when a redeem call or an import *)
(* call has returned or raised, the transaction it began on its connection *)
(* is committed or rolled back, whatever the outcome.                      *)
C33_TransactionsEnded ==
    \A c \in Conns :
        (pc[c] = "done" /\ args[c].op \in {"redeem", "import"}) =>
            ~trx[c].open

----------------------------------------------------------------------------
(* C34 - Import dedup is by request id alone: an import that starts when   *)
(* the import audit table holds no row of its request id is carried out as *)
(* a first-time import, whatever fingerprints the table holds; its commit  *)
(* appends its import audit row and one unused code row for every row of   *)
(* its content, in order, and leaves the rows that were there as they are. *)
C34_DedupByRequestIdOnly ==
    [][\A c \in Conns :
          /\ \A a \in ImportInputs :
                (/\ Starts(c, a)
                 /\ \A i \in 1..Len(import_audit[a.pool]) :
                       import_audit[a.pool][i].request_id # a.request_id) =>
                    /\ pc'[c] = "import_audit"
                    /\ trx'[c].open
          /\ (pc[c] = "import_commit" /\ pc'[c] = "done") =>
                LET p == args[c].pool
                    dicts == args[c].unique_code_dicts
                    n == Len(unique_codes[p])
                IN  /\ result'[c].kind = "ok"
                    /\ Len(unique_codes'[p]) = n + Len(dicts)
                    /\ \A i \in 1..n :
                          unique_codes'[p][i] = unique_codes[p][i]
                    /\ \A i \in 1..Len(dicts) :
                          /\ unique_codes'[p][n + i].unique_code
                                 = dicts[i].unique_code
                          /\ unique_codes'[p][n + i].flavour
                                 = dicts[i].flavour
                          /\ ~unique_codes'[p][n + i].used
                    /\ Len(import_audit'[p]) = Len(import_audit[p]) + 1
                    /\ import_audit'[p][Len(import_audit'[p])].request_id
                           = args[c].request_id
                    /\ import_audit'[p][Len(import_audit'[p])].content_md5
                           = args[c].content_md5]_vars

(* Two imports of one content under two request ids are recorded, and the  *)
(* pool holds every code of the content in two rows.                       *)
C34_Witness ==
    \E p \in Pools :
        /\ Len(import_audit[p]) = 2
        /\ import_audit[p][1].request_id # import_audit[p][2].request_id
        /\ import_audit[p][1].content_md5 = import_audit[p][2].content_md5
        /\ Len(unique_codes[p]) >= 2
        /\ \A i \in 1..Len(unique_codes[p]) :
              \E j \in 1..Len(unique_codes[p]) :
                  /\ j # i
                  /\ unique_codes[p][j].unique_code
                         = unique_codes[p][i].unique_code

----------------------------------------------------------------------------
(* Redeem calls and import calls on pools that exist or not. *)
SpecFrame == InitPools /\ [][Next]_vars

(* The code rows of every pool keep their place, id, code and flavour, and *)
(* no row is added. *)
SameCodeRows ==
    \A p \in Pools :
        /\ Len(unique_codes'[p]) = Len(unique_codes[p])
        /\ \A i \in 1..Len(unique_codes[p]) :
              /\ unique_codes'[p][i].id = unique_codes[p][i].id
              /\ unique_codes'[p][i].unique_code
                     = unique_codes[p][i].unique_code
              /\ unique_codes'[p][i].flavour = unique_codes[p][i].flavour

(* C35 - Frame of the calls: a redeem call that ends in CannotRedeem, in a *)
(* replay, in AuditMismatch or in NoUniqueCodePool leaves every code row   *)
(* as it was; no step of a redeem call adds or removes a code row, changes *)
(* the code or the flavour of one, or changes the import audit table; and  *)
(* no step of an import call changes a code row that was there or changes  *)
(* the audit table.                                                        *)
C35_FrameOfCalls ==
    [][\A c \in Conns :
          /\ (pc'[c] # pc[c] /\ args'[c].op = "redeem") =>
                /\ SameCodeRows
                /\ import_audit' = import_audit
                /\ (/\ pc'[c] = "done"
                    /\ \/ result'[c].kind \in
                              {"CannotRedeemUniqueCode", "AuditMismatch",
                               "NoUniqueCodePool"}
                       \/ pc[c] = "idle") =>
                       unique_codes' = unique_codes
          /\ (pc'[c] # pc[c] /\ args'[c].op = "import") =>
                /\ audit' = audit
                /\ \A p \in Pools :
                      /\ Len(unique_codes'[p]) >= Len(unique_codes[p])
                      /\ \A i \in 1..Len(unique_codes[p]) :
                            unique_codes'[p][i] = unique_codes[p][i]]_vars

(* A redeem call has failed with CannotRedeem 'used' on a pool with two    *)
(* audit rows, and the second import of the pool has been committed.       *)
C35_Witness ==
    \E c1, c2 \in Conns :
        /\ pc[c1] = "done" /\ args[c1].op = "redeem"
        /\ result[c1].kind = "CannotRedeemUniqueCode"
        /\ result[c1].value.reason = "used"
        /\ pc[c2] = "done" /\ args[c2].op = "import"
        /\ result[c2] = Returned(ResultProxy)
        /\ Len(import_audit[args[c2].pool]) = 2
        /\ Len(audit[args[c1].pool]) = 2

----------------------------------------------------------------------------
(* C36 - Concurrent imports under one request id: in every committed state *)
(* the import audit table of a pool holds at most one row for a request    *)
(* id and the code table holds the rows of the recorded imports, one copy  *)
(* of each; the call whose insert of the import audit row meets the        *)
(* committed row of the other call fails and commits nothing.              *)
C36_OneImportPerRequestId ==
    /\ [](\A p \in Pools :
             /\ \A r \in ReqIds : Cardinality(ImportEntries(p, r)) <= 1
             /\ CodesStored(p) = CodesImported(import_audit[p]))
    /\ [][\A c \in Conns :
             (pc[c] = "import_audit" /\ pc'[c] = "done") =>
                 /\ Cardinality(ImportEntries(args[c].pool,
                                              args[c].request_id)) = 1
                 /\ result'[c].kind = "IntegrityError"
                 /\ trx'[c].import_audit = <<>>
                 /\ trx'[c].unique_codes = <<>>
                 /\ UNCHANGED stores]_vars

(* Of two import calls that ran together under one request id, one failed  *)
(* at its insert of the import audit row; the pool holds the import audit  *)
(* row and the code rows of the other.                                     *)
C36_Witness ==
    \E c \in Conns :
        /\ pc[c] = "done"
        /\ args[c].op = "import"
        /\ result[c].kind = "IntegrityError"
        /\ Len(import_audit[args[c].pool]) = 1
        /\ import_audit[args[c].pool][1].request_id = args[c].request_id
        /\ import_audit[args[c].pool][1].content_md5 = args[c].content_md5
        /\ Len(unique_codes[args[c].pool]) = Len(args[c].unique_code_dicts)

====
